---- MODULE Spec2Model ----
(***************************************************************************)
(* Model of the Fantacalcio scoring-and-aggregation engine:                *)
(*   src/src/player.py            Player (stats, fantavoto)                *)
(*   src/season.py                SeasonTable, Season                      *)
(*   src/data/matchdayprocessor.py  standardize_player_lists               *)
(*   src/loader.py                load_player_data_from_csv                *)
(*                                                                         *)
(* Numbers.  Every rating, fantavoto, score and total is a Python float in *)
(* the source.  A rating is held as the hundredths of its decimal text     *)
(* (6.25 is 625); every number computed from ratings is a float, held as   *)
(* the exact binary value the double has (section "Python floats"), so     *)
(* that sums, differences, comparisons and round(x, 1) give what the       *)
(* interpreter gives, last bit included.  Stat counts (goals, cards, ...)  *)
(* are plain integers.                                                     *)
(***************************************************************************)
EXTENDS Integers, Sequences, FiniteSets, Bags, TLC

VARIABLES
    player,            \* one Player object (SpecPlayer, SpecFormula)
    st,                \* one stand-alone SeasonTable (SpecTable)
    st_call,           \* the last call made on it, and the score it found recorded
    teams,             \* Season.teams: the list of Team objects
    table,             \* Season.table: dict name -> SeasonTable, in insertion order
    current_matchday,  \* Season.current_matchday
    season_completed,  \* Season.season_completed
    last,              \* outcome of the last Season call: operation, argument, result
    files,             \* the matchday CSV files, in csv_files order
    original,          \* the files as the last standardize_player_lists call found them
    returned,          \* whether that call was the last operation, and what it returned
    ld                 \* the loader: its input files, the teams it builds, its stage

playerVars == <<player>>
tableVars  == <<st, st_call>>
seasonVars == <<teams, table, current_matchday, season_completed, last>>
stdVars    == <<files, original, returned>>
loadVars   == <<ld>>
vars == <<player, st, st_call, teams, table, current_matchday, season_completed, last,
          files, original, returned, ld>>

(***************************************************************************)
(* Python dicts: a function whose DOMAIN is the set of keys.               *)
(***************************************************************************)
EmptyDict == [k \in {} |-> 0]

\* d[k] = v
Put(d, k, v) == (k :> v) @@ d

Get(d, k, default) == IF k \in DOMAIN d THEN d[k] ELSE default

RECURSIVE SumSeq(_)
SumSeq(s) == IF s = <<>> THEN 0 ELSE Head(s) + SumSeq(Tail(s))

MinOf(S) == CHOOSE x \in S : \A y \in S : x <= y

Range(s) == {s[i] : i \in DOMAIN s}

(***************************************************************************)
(* Python dicts whose iteration order matters (Season.table,               *)
(* SeasonTable.matchday_scores): a sequence of [k, v] items in insertion   *)
(* order.  Assigning to a key already present replaces the value and keeps *)
(* the key's place.                                                        *)
(***************************************************************************)
OKeys(od) == {od[i].k : i \in DOMAIN od}

OIndex(od, key) == CHOOSE i \in DOMAIN od : od[i].k = key

OGet(od, key) == od[OIndex(od, key)].v

OPut(od, key, value) ==
    IF key \in OKeys(od)
    THEN [od EXCEPT ![OIndex(od, key)].v = value]
    ELSE Append(od, [k |-> key, v |-> value])

\* list(od.values())
OValues(od) == [i \in DOMAIN od |-> od[i].v]

(***************************************************************************)
(* Python floats.  A float that lies next to a decimal hundredth is the    *)
(* record [h, p, t] standing for the exact value                           *)
(*        h / 100  +  t / (100 * 2^p)  =  (h * 2^p + t) / (100 * 2^p),     *)
(* a multiple of 2^-p: h is the nearest number of hundredths, p the binary *)
(* grid the float sits on and t how far off the hundredth it is.  An input *)
(* (a rating) is the hundredths of its decimal text and becomes a float by *)
(* Float; sums, differences, comparisons and roundings are then taken on   *)
(* the exact values, each result rounded to 53 bits, ties to even, as      *)
(* IEEE 754 does.  The form is unique:                                     *)
(*   zero is [0, 0, 0];                                                    *)
(*   h # 0: p = 52 - floor(log2 |x|), the grid of the doubles of x's size; *)
(*   h = 0, x # 0: x = j / 2^p with j odd, and t = 100 * j.                *)
(* NaN is a record of its own.                                             *)
(* An operator that reads a float argument several times takes its value   *)
(* first (CHOOSE r \in {... : a \in {x}} : TRUE), so that an argument      *)
(* which is itself a computation is worked out once.                       *)
(***************************************************************************)
Zero     == [h |-> 0, p |-> 0, t |-> 0]
FloatNaN == [h |-> 0, p |-> -1, t |-> 0]

Sgn(v) == IF v > 0 THEN 1 ELSE IF v < 0 THEN -1 ELSE 0
Abs(v) == IF v < 0 THEN -v ELSE v

RECURSIVE Log2Floor(_)
Log2Floor(k) == IF k < 2 THEN 0 ELSE 1 + Log2Floor(k \div 2)

\* 2^p % m for m one of 20, 40, 100, 200: the residues repeat with period 20
\* from 2^3 on
Pow2Mod(p, m) == IF p < 23 THEN (2 ^ p) % m ELSE (2 ^ (3 + ((p - 3) % 20))) % m

\* floor(log2 |x|) for |x| = a / 100 moved a hair up (s > 0), down (s < 0)
\* or not at all (s = 0), a > 0
Exponent(a, s) ==
    LET E     == IF a >= 100 THEN Log2Floor(a \div 100)
                 ELSE - (CHOOSE k \in 1..7 : a * 2 ^ k >= 100 /\ a * 2 ^ (k - 1) < 100)
        exact == IF a >= 100 THEN a = 100 * 2 ^ E ELSE a * 2 ^ (- E) = 100
    IN  IF exact /\ s < 0 THEN E - 1 ELSE E

\* t / (100 * 2^p) on the finer grid 2^-(p + k)
Scale(t, k) == IF t = 0 THEN 0 ELSE t * 2 ^ k

\* float("h/100"): the double nearest to the decimal h / 100
Float(h) ==
    CHOOSE x \in
        {IF v = 0 THEN Zero
         ELSE LET p == 52 - Exponent(Abs(v), 0)
                  r == ((Abs(v) % 100) * Pow2Mod(p, 100)) % 100    \* |h| * 2^p % 100
              IN  [h |-> v, p |-> p, t |-> Sgn(v) * (IF r < 50 THEN - r ELSE 100 - r)] :
            v \in {h}} : TRUE

\* j / 2^p in lowest terms
RECURSIVE Strip(_, _)
Strip(j, p) == IF j % 2 = 0 THEN Strip(j \div 2, p - 1) ELSE [h |-> 0, p |-> p, t |-> 100 * j]

\* the double nearest to the exact value (H * 2^P + T) / (100 * 2^P), ties to
\* the even significand
RECURSIVE Nearest(_, _, _)
Nearest(H, P, T) ==
    IF H = 0 THEN (IF T = 0 THEN Zero ELSE Strip(T \div 100, P))
    ELSE IF H < 0 THEN LET x == Nearest(- H, P, - T)
                       IN  [h |-> - x.h, p |-> x.p, t |-> - x.t]
    ELSE LET ps == 52 - Exponent(H, Sgn(T))                \* the grid of the result
         IN  IF ps >= P THEN [h |-> H, p |-> ps, t |-> Scale(T, ps - P)]
             ELSE LET d     == P - ps
                      D     == 100 * 2 ^ d
                      \* H * 2^ps = 100 * a + r: a is the significand below
                      r     == ((H % 100) * Pow2Mod(ps, 100)) % 100
                      a_odd == ((H % 200) * Pow2Mod(ps, 200)) % 200 >= 100
                      \* the exact value is (a + w / D) / 2^ps
                      w     == r * 2 ^ d + T
                      m0    == w \div D
                      rem   == w - m0 * D
                      m     == IF 2 * rem > D \/ (2 * rem = D /\ ((m0 % 2 = 1) # a_odd))
                               THEN m0 + 1 ELSE m0
                      t     == 100 * m - r
                  IN  IF t = 0 THEN [h |-> H, p |-> 52 - Exponent(H, 0), t |-> 0]
                      ELSE [h |-> H, p |-> ps, t |-> t]

\* x + y
FAdd(x, y) ==
    CHOOSE sum \in
        {IF b = Zero THEN a
         ELSE IF a = Zero THEN b
         ELSE IF a = FloatNaN \/ b = FloatNaN THEN FloatNaN
         ELSE LET P == IF a.p > b.p THEN a.p ELSE b.p
              IN  Nearest(a.h + b.h, P, Scale(a.t, P - a.p) + Scale(b.t, P - b.p)) :
            a \in {x}, b \in {y}} : TRUE

\* - x
FNeg(x) ==
    CHOOSE r \in
        {IF a = FloatNaN THEN FloatNaN ELSE [h |-> - a.h, p |-> a.p, t |-> - a.t] :
            a \in {x}} : TRUE

\* x - y
FSub(x, y) == FAdd(x, FNeg(y))

\* x < y
FLess(x, y) ==
    \E a \in {x}, b \in {y} :
        /\ a # FloatNaN
        /\ b # FloatNaN
        /\ IF a.h # b.h THEN a.h < b.h
           ELSE LET P == IF a.p > b.p THEN a.p ELSE b.p
                IN  Scale(a.t, P - a.p) < Scale(b.t, P - b.p)

\* acc + s[a] + ... + s[b], added one after the other from the left; the
\* items are walked as their first half followed by their second half
RECURSIVE FSumFrom(_, _, _, _)
FSumFrom(acc, s, a, b) ==
    IF a > b THEN acc
    ELSE IF a = b THEN FAdd(acc, s[a])
    ELSE CHOOSE sum \in
             {IF first = FloatNaN THEN FloatNaN
              ELSE FSumFrom(first, s, ((a + b) \div 2) + 1, b) :
                 first \in {FSumFrom(acc, s, a, (a + b) \div 2)}} : TRUE

\* sum(s): Python adds the items one after the other, from the left
FSum(s) == FSumFrom(Zero, s, 1, Len(s))

\* max(s) and min(s): the first of the largest (smallest) items
RECURSIVE FMax(_)
FMax(s) ==
    IF Len(s) = 1 THEN s[1]
    ELSE CHOOSE r \in
             {IF FLess(m, s[Len(s)]) THEN s[Len(s)] ELSE m :
                 m \in {FMax(SubSeq(s, 1, Len(s) - 1))}} : TRUE

RECURSIVE FMin(_)
FMin(s) ==
    IF Len(s) = 1 THEN s[1]
    ELSE CHOOSE r \in
             {IF FLess(s[Len(s)], m) THEN s[Len(s)] ELSE m :
                 m \in {FMin(SubSeq(s, 1, Len(s) - 1))}} : TRUE

\* the number of tenths nearest to the exact value of x, a tie (the value is
\* exactly half-way: x.25, x.75) going to the even tenth: what round(x, 1) and
\* the format {x:.1f} both print
Tenth(x) ==
    CHOOSE tenths \in
        {LET k == a.h \div 10
             r == a.h - 10 * k
         IN  IF r < 5 \/ (r = 5 /\ a.t < 0) THEN k
             ELSE IF r > 5 \/ (r = 5 /\ a.t > 0) THEN k + 1
             ELSE IF k % 2 = 0 THEN k ELSE k + 1 : a \in {x}} : TRUE

\* round(x, 1)
Round1(x) ==
    CHOOSE r \in
        {IF a = FloatNaN THEN FloatNaN ELSE Float(10 * Tenth(a)) : a \in {x}} : TRUE

\* the number of tenths of round(x / n, 1) for x > 0 and n > 0: the quotient is
\* first rounded to a double, and that double is then rounded to a tenth
TenthOfQuotient(x, n) ==
    LET k == x.h \div (10 * n)
        r == x.h - 10 * n * k
    IN  IF r < 5 * n THEN k
        ELSE IF r > 5 * n THEN k + 1
        ELSE \* h / (100 * n) is the half-way value c / 20, and the exact
             \* quotient is c / 20 + t / (100 * 2^p * n)
             LET c     == 2 * k + 1
                 pq    == 52 - Exponent(5 * c, Sgn(x.t))   \* the grid of the quotient
                 \* c * 2^pq = 20 * a + f
                 f     == ((c % 20) * Pow2Mod(pq, 20)) % 20
                 a_odd == ((c % 40) * Pow2Mod(pq, 40)) % 40 >= 20
                 \* the exact quotient is (a + w / D) / 2^pq
                 w     == 5 * f * n + Scale(x.t, pq - x.p)
                 D     == 100 * n
                 m0    == w \div D
                 rem   == w - m0 * D
                 m     == IF 2 * rem > D \/ (2 * rem = D /\ ((m0 % 2 = 1) # a_odd))
                          THEN m0 + 1 ELSE m0
             IN  \* the double is (a + m) / 2^pq, the half-way value (a + f / 20) / 2^pq
                 IF 20 * m > f THEN k + 1
                 ELSE IF 20 * m < f THEN k
                 ELSE IF k % 2 = 0 THEN k ELSE k + 1

\* round(x / n, 1) for n > 0
RoundDiv1(x, n) ==
    CHOOSE r \in
        {IF a = FloatNaN THEN FloatNaN
         ELSE IF a.h = 0 THEN Zero
         ELSE IF a.h < 0 THEN Float(- 10 * TenthOfQuotient(FNeg(a), d))
         ELSE Float(10 * TenthOfQuotient(a, d)) : a \in {x}, d \in {n}} : TRUE

(***************************************************************************)
(* Role (src/role.py is not part of the sources; the values are those of   *)
(* role_mapping in loader.py and the comparison with Role.GOALKEEPER).     *)
(***************************************************************************)
GOALKEEPER == "G"
Roles == {"G", "D", "M", "F"}

(***************************************************************************)
(* Player                                                                  *)
(***************************************************************************)
\* float('nan') as a stored rating, the value pandas gives an empty CSV cell: a
\* number outside the range of every rating of the model
NaN == -99999999

\* a rating that is not a number (None, or the text of a cell): it is not
\* equal to 0 and the first "+=" of the formula raises TypeError
NotANumber == -88888888

\* what an operator yields in place of a float when the call raises
Raised == [h |-> 0, p |-> -2, t |-> 0]

\* Player.__init__
NewPlayer(cod, role) ==
    [cod |-> cod, role |-> role,
     matchday_stats |-> EmptyDict, matchday_fantavoto |-> EmptyDict]

\* PlayerStats(rating=stats.get('Rating', 0), ...)
PlayerStats(stats) ==
    [rating |-> Get(stats, "Rating", 0),
     gf     |-> Get(stats, "Gf", 0),
     gs     |-> Get(stats, "Gs", 0),
     rp     |-> Get(stats, "Rp", 0),
     rs     |-> Get(stats, "Rs", 0),
     rf     |-> Get(stats, "Rf", 0),
     au     |-> Get(stats, "Au", 0),
     amm    |-> Get(stats, "Amm", 0),
     esp    |-> Get(stats, "Esp", 0),
     ass    |-> Get(stats, "Ass", 0)]

\* Player.add_matchday_stats
add_matchday_stats(p, matchday, stats) ==
    [p EXCEPT !.matchday_stats = Put(@, matchday, PlayerStats(stats))]

\* Player.has stats for the matchday (get_stats returns None otherwise)
has_stats(p, matchday) == matchday \in DOMAIN p.matchday_stats

\* the amounts that the statements "fantavoto += stats.gf * 3" to
\* "fantavoto -= stats.au * 2" add, in the order of the code
BonusMalus(s) ==
    <<Float(300 * s.gf), Float(100 * s.ass), FNeg(Float(300 * s.rp)),
      Float(300 * s.rs), FNeg(Float(50 * s.amm)), FNeg(Float(100 * s.esp)),
      FNeg(Float(200 * s.au))>>

\* fantavoto after those statements, from "fantavoto = stats.rating" on: one
\* float addition after the other
BaseFantavoto(s) == FSumFrom(Float(s.rating), BonusMalus(s), 1, Len(BonusMalus(s)))

\* the amounts the two goalkeeper statements add: 1 for a clean sheet, then
\* minus the goals conceded
GoalkeeperTerms(s) ==
    (IF s.gs = 0 THEN <<Float(100)>> ELSE <<>>) \o <<FNeg(Float(100 * s.gs))>>

\* mutant: the clean-sheet bonus and the goals-against malus reach every role
RawFantavoto_AllRoles(role, s) ==
    FSumFrom(BaseFantavoto(s), GoalkeeperTerms(s), 1, Len(GoalkeeperTerms(s)))

\* the formula of calculate_fantavoto before the final round
RawFantavoto(role, s) ==
    IF role = GOALKEEPER
    THEN FSumFrom(BaseFantavoto(s), GoalkeeperTerms(s), 1, Len(GoalkeeperTerms(s)))
    ELSE BaseFantavoto(s)

\* mutant: the "did not play" test is dropped
calculate_fantavoto_NoSentinel(p, matchday) ==
    IF ~ has_stats(p, matchday) THEN Zero
    ELSE Round1(RawFantavoto(p.role, p.matchday_stats[matchday]))

\* Player.calculate_fantavoto.  A rating of NaN is not equal to 0, goes through
\* the formula and comes out of it and of round() as NaN; a rating that is not
\* a number makes the formula raise.
calculate_fantavoto(p, matchday) ==
    IF ~ has_stats(p, matchday) \/ p.matchday_stats[matchday].rating = 0 THEN Zero
    ELSE IF p.matchday_stats[matchday].rating = NaN THEN FloatNaN
    ELSE IF p.matchday_stats[matchday].rating = NotANumber THEN Raised
    ELSE Round1(RawFantavoto(p.role, p.matchday_stats[matchday]))

\* Player.add_matchday_fantavoto: nothing is stored when calculate_fantavoto
\* raises
add_matchday_fantavoto(p, matchday) ==
    CHOOSE after \in
        {IF fantavoto = Raised THEN p
         ELSE [p EXCEPT !.matchday_fantavoto = Put(@, matchday, fantavoto)] :
            fantavoto \in {calculate_fantavoto(p, matchday)}} : TRUE

(***************************************************************************)
(* SeasonTable                                                             *)
(***************************************************************************)
\* SeasonTable.__init__
NewSeasonTable(team) ==
    [team |-> team, total_points |-> Zero,
     matchday_scores |-> <<>>, matchdays_played |-> 0]

\* mutant: the total is kept as a running sum
add_matchday_score_Running(t, matchday, score) ==
    [t EXCEPT
        !.matchdays_played = IF matchday \notin OKeys(t.matchday_scores) THEN @ + 1 ELSE @,
        !.matchday_scores  = OPut(@, matchday, score),
        !.total_points     = FAdd(@, score)]

\* mutant: matchdays_played counts the calls
add_matchday_score_Counter(t, matchday, score) ==
    [t EXCEPT
        !.matchdays_played = @ + 1,
        !.matchday_scores  = OPut(@, matchday, score),
        !.total_points     = FSum(OValues(OPut(t.matchday_scores, matchday, score)))]

\* SeasonTable.add_matchday_score: sum() adds the values in the order of the
\* dict, the order in which the matchdays were first recorded
add_matchday_score(t, matchday, score) ==
    [t EXCEPT
        !.matchdays_played = IF matchday \notin OKeys(t.matchday_scores) THEN @ + 1 ELSE @,
        !.matchday_scores  = OPut(@, matchday, score),
        !.total_points     = FSum(OValues(OPut(t.matchday_scores, matchday, score)))]

\* SeasonTable.get_stats
get_stats(t) ==
    [team             |-> t.team.name,
     total_points     |-> Round1(t.total_points),
     matchdays_played |-> t.matchdays_played,
     average_score    |-> RoundDiv1(t.total_points,
                                    IF t.matchdays_played >= 1 THEN t.matchdays_played ELSE 1),
     best_score       |-> IF t.matchday_scores # <<>>
                          THEN FMax(OValues(t.matchday_scores)) ELSE Zero,
     worst_score      |-> IF t.matchday_scores # <<>>
                          THEN FMin(OValues(t.matchday_scores)) ELSE Zero]

(***************************************************************************)
(* Team (src/team.py is not part of the sources: modelled from the         *)
(* specification, sections 3 and 4.3).  A Team is its name and its roster  *)
(* of Player objects.                                                      *)
(***************************************************************************)
NewTeam(name, players) == [name |-> name, players |-> players]

\* sum(...) over the roster: the fantavoto of the players are added one after
\* the other, in roster order, from 0
RECURSIVE SumFantavoto(_, _)
SumFantavoto(players, matchday) ==
    IF players = <<>> THEN Zero
    ELSE CHOOSE total \in
             {\* an exception raised for a player ends the sum of the team
              IF before = Raised \/ fantavoto = Raised THEN Raised
              ELSE FAdd(before, fantavoto) :
                 before    \in {SumFantavoto(SubSeq(players, 1, Len(players) - 1), matchday)},
                 fantavoto \in {calculate_fantavoto(players[Len(players)], matchday)}} : TRUE

\* Team.calculate_total_score
calculate_total_score(team, matchday) == SumFantavoto(team.players, matchday)

(***************************************************************************)
(* Season                                                                  *)
(***************************************************************************)
FIRST_MATCHDAY == 1
LAST_MATCHDAY  == 38

RECURSIVE BuildTable(_, _)
BuildTable(tbl, ts) ==
    IF ts = <<>> THEN tbl
    ELSE BuildTable(OPut(tbl, Head(ts).name, NewSeasonTable(Head(ts))), Tail(ts))

\* Season.__init__
NewSeason(ts) ==
    [teams |-> ts, table |-> BuildTable(<<>>, ts),
     current_matchday |-> 1, season_completed |-> FALSE]

\* the loop of process_matchday over self.teams: the table, the returned dict,
\* and the exception that ended the loop at the team whose scoring raised
RECURSIVE ScoreTeams(_, _, _, _)
ScoreTeams(tbl, scores, ts, matchday) ==
    IF ts = <<>> THEN [table |-> tbl, matchday_scores |-> scores, raised |-> "none"]
    ELSE CHOOSE loop \in
             {IF score = Raised
              THEN [table |-> tbl, matchday_scores |-> scores, raised |-> "TypeError"]
              ELSE ScoreTeams(
                       OPut(tbl, team.name,
                            add_matchday_score(OGet(tbl, team.name), matchday, score)),
                       Put(scores, team.name, score),
                       Tail(ts), matchday) :
                  team  \in {Head(ts)},
                  score \in {calculate_total_score(Head(ts), matchday)}} : TRUE

\* mutant: the range test lets matchday 0 and matchday 39 through
InRange_Wide(matchday) ==
    ~ (matchday > LAST_MATCHDAY + 1 \/ matchday < FIRST_MATCHDAY - 1)

\* the negation of the guard of process_matchday
InRange(matchday) == ~ (matchday > LAST_MATCHDAY \/ matchday < FIRST_MATCHDAY)

\* mutant: the pointer follows the matchday processed last
process_matchday_Follow(S, matchday) ==
    IF ~ InRange(matchday)
    THEN [season |-> S, raised |-> "ValueError", value |-> EmptyDict]
    ELSE CHOOSE outcome \in
         {IF r.raised # "none"
             THEN [season |-> [S EXCEPT !.table = r.table],
                   raised |-> r.raised, value |-> EmptyDict]
             ELSE [season |-> [S EXCEPT !.table = r.table,
                                        !.current_matchday = matchday + 1],
                   raised |-> "none",
                   value  |-> r.matchday_scores] :
             r \in {ScoreTeams(S.table, EmptyDict, S.teams, matchday)}} : TRUE

\* mutant: the pointer moves on after every matchday processed
process_matchday_Jump(S, matchday) ==
    IF ~ InRange(matchday)
    THEN [season |-> S, raised |-> "ValueError", value |-> EmptyDict]
    ELSE CHOOSE outcome \in
         {IF r.raised # "none"
             THEN [season |-> [S EXCEPT !.table = r.table],
                   raised |-> r.raised, value |-> EmptyDict]
             ELSE [season |-> [S EXCEPT !.table = r.table,
                                        !.current_matchday = @ + 1],
                   raised |-> "none",
                   value  |-> r.matchday_scores] :
             r \in {ScoreTeams(S.table, EmptyDict, S.teams, matchday)}} : TRUE

\* mutant: processing a matchday reopens a completed season
process_matchday_Reopen(S, matchday) ==
    IF ~ InRange(matchday)
    THEN [season |-> S, raised |-> "ValueError", value |-> EmptyDict]
    ELSE CHOOSE outcome \in
         {IF r.raised # "none"
             THEN [season |-> [S EXCEPT !.table = r.table],
                   raised |-> r.raised, value |-> EmptyDict]
             ELSE [season |-> [S EXCEPT !.table = r.table,
                                        !.season_completed = FALSE,
                                        !.current_matchday =
                                            IF matchday = S.current_matchday THEN @ + 1 ELSE @],
                   raised |-> "none",
                   value  |-> r.matchday_scores] :
             r \in {ScoreTeams(S.table, EmptyDict, S.teams, matchday)}} : TRUE

\* Season.process_matchday: the season after the call, what it raised, what it returned
process_matchday(S, matchday) ==
    IF ~ InRange(matchday)
    THEN [season |-> S, raised |-> "ValueError", value |-> EmptyDict]
    ELSE CHOOSE outcome \in
         {IF r.raised # "none"
             THEN [season |-> [S EXCEPT !.table = r.table],
                   raised |-> r.raised, value |-> EmptyDict]
             ELSE [season |-> [S EXCEPT !.table = r.table,
                                        !.current_matchday =
                                            IF matchday = S.current_matchday THEN @ + 1 ELSE @],
                   raised |-> "none",
                   value  |-> r.matchday_scores] :
             r \in {ScoreTeams(S.table, EmptyDict, S.teams, matchday)}} : TRUE

\* list.sort(key=..., reverse=True) as CPython runs it on a list of fewer than
\* 64 items (listobject.c: list_sort_impl, count_run, binarysort).  The list is
\* reversed, the run it starts with is found (and reversed if it descends), the
\* items after the run are put in their places by binary insertion, and the
\* list is reversed again.  The only comparison made is "<" on two keys, which
\* is false whenever one of them is NaN.  The operators work on the places
\* 1..Len(keys) of the keys.
Reverse(s) == [i \in DOMAIN s |-> s[Len(s) + 1 - i]]

\* count_run: the length of the run that the list `a` of places starts with,
\* and whether the run is a strictly descending one
CountRun(keys, a) ==
    IF Len(a) < 2 THEN [n |-> Len(a), descending |-> FALSE]
    ELSE CHOOSE run \in
             {[n |-> CHOOSE n \in 2..Len(a) :
                        /\ \A k \in 3..n :
                              FLess(keys[a[k]], keys[a[k - 1]]) = descending
                        /\ n < Len(a) =>
                              FLess(keys[a[n + 1]], keys[a[n]]) # descending,
               descending |-> descending] :
                 descending \in {FLess(keys[a[2]], keys[a[1]])}} : TRUE

\* the loop of binarysort that looks for the place of `pivot` in a[l..r-1]
RECURSIVE BinaryPlace(_, _, _, _, _)
BinaryPlace(keys, a, pivot, l, r) ==
    IF l >= r THEN l
    ELSE IF FLess(keys[pivot], keys[a[l + ((r - l) \div 2)]])
         THEN BinaryPlace(keys, a, pivot, l, l + ((r - l) \div 2))
         ELSE BinaryPlace(keys, a, pivot, l + ((r - l) \div 2) + 1, r)

\* binarysort: a[1..start-1] is in order, the items from a[start] on are
\* inserted one after the other
RECURSIVE binarysort(_, _, _)
binarysort(keys, a, start) ==
    IF start > Len(a) THEN a
    ELSE binarysort(keys,
             CHOOSE moved \in
                 {SubSeq(a, 1, l - 1) \o <<a[start]>> \o SubSeq(a, l, start - 1)
                      \o SubSeq(a, start + 1, Len(a)) :
                     l \in {BinaryPlace(keys, a, a[start], 1, start)}} : TRUE,
             start + 1)

\* the places of the keys in the order in which the sort leaves their items
list_sort_reverse(keys) ==
    CHOOSE order \in
        {Reverse(binarysort(keys,
                     IF run.descending
                     THEN Reverse(SubSeq(Reverse([i \in DOMAIN keys |-> i]), 1, run.n))
                              \o SubSeq(Reverse([i \in DOMAIN keys |-> i]),
                                        run.n + 1, Len(keys))
                     ELSE Reverse([i \in DOMAIN keys |-> i]),
                     run.n + 1)) :
            run \in {CountRun(keys, Reverse([i \in DOMAIN keys |-> i]))}} : TRUE

\* table_data.sort(key=lambda x: x['total_points'], reverse=True)
SortDesc(s) ==
    CHOOSE sorted \in
        {[i \in DOMAIN s |-> s[order[i]]] :
            order \in {list_sort_reverse([i \in DOMAIN s |-> s[i].total_points])}} : TRUE

\* Season.get_season_table
get_season_table(S) ==
    CHOOSE ranked \in
        {[i \in 1..Len(table_data) |->
             [team             |-> table_data[i].team,
              total_points     |-> table_data[i].total_points,
              matchdays_played |-> table_data[i].matchdays_played,
              average_score    |-> table_data[i].average_score,
              best_score       |-> table_data[i].best_score,
              worst_score      |-> table_data[i].worst_score,
              position         |-> i]] :
            table_data \in
                {SortDesc([i \in 1..Len(S.table) |-> get_stats(S.table[i].v)])}} : TRUE

\* all_scores of get_season_summary: the scores of every table, table after
\* table in dict order
RECURSIVE AllScores(_)
AllScores(tbl) ==
    IF tbl = <<>> THEN <<>>
    ELSE AllScores(SubSeq(tbl, 1, Len(tbl) - 1)) \o OValues(tbl[Len(tbl)].v.matchday_scores)

\* the keys of max(final_table, key=best_score) and of
\* min(final_table, key=best_score - worst_score)
BestScores(final_table) == [i \in DOMAIN final_table |-> final_table[i].best_score]

Spreads(final_table) ==
    [i \in DOMAIN final_table |->
        FSub(final_table[i].best_score, final_table[i].worst_score)]

\* max(keys) over the first n keys: the place kept is replaced by the place of
\* a later key only if that key is greater (never, if either is NaN)
RECURSIVE FirstHighestOf(_, _)
FirstHighestOf(keys, n) ==
    IF n = 1 THEN 1
    ELSE CHOOSE place \in
             {IF FLess(keys[kept], keys[n]) THEN n ELSE kept :
                 kept \in {FirstHighestOf(keys, n - 1)}} : TRUE

FirstHighest(keys) == FirstHighestOf(keys, Len(keys))

\* min(keys) over the first n keys: the place kept is replaced by the place of
\* a later key only if that key is less (never, if either is NaN)
RECURSIVE FirstLowestOf(_, _)
FirstLowestOf(keys, n) ==
    IF n = 1 THEN 1
    ELSE CHOOSE place \in
             {IF FLess(keys[n], keys[kept]) THEN n ELSE kept :
                 kept \in {FirstLowestOf(keys, n - 1)}} : TRUE

FirstLowest(keys) == FirstLowestOf(keys, Len(keys))

\* Season.get_season_summary (for a season with at least one team)
get_season_summary(S) ==
    CHOOSE summary \in
        {[teams                      |-> Len(S.teams),
          total_matchdays_processed  |-> SumSeq([i \in 1..Len(S.table) |->
                                                   S.table[i].v.matchdays_played]),
          average_score_per_matchday |-> IF all_scores # <<>>
                                         THEN RoundDiv1(FSum(all_scores), Len(all_scores))
                                         ELSE Zero,
          final_table                |-> final_table,
          champion                   |-> final_table[1].team,
          champion_points            |-> final_table[1].total_points,
          highest_single_score       |-> final_table[FirstHighest(BestScores(final_table))].best_score,
          highest_score_team         |-> final_table[FirstHighest(BestScores(final_table))].team,
          most_consistent_team       |-> final_table[FirstLowest(Spreads(final_table))].team,
          season_completed           |-> S.season_completed] :
            final_table \in {get_season_table(S)},
            all_scores  \in {AllScores(S.table)}} : TRUE

\* scores.sort(key=lambda x: x[1], reverse=True)
SortByScore(s) ==
    CHOOSE sorted \in
        {[i \in DOMAIN s |-> s[order[i]]] :
            order \in {list_sort_reverse([i \in DOMAIN s |-> s[i].score])}} : TRUE

\* the text of get_matchday_scores, by what it says: the two messages carry the
\* matchday; the listing carries one line per team that has the matchday, with
\* its rank, its name and its score as {score:6.1f} prints it (the decimal of
\* one digit nearest to the float; nan for NaN)
MatchdayScoresText(S, matchday) ==
    IF matchday < FIRST_MATCHDAY \/ matchday > LAST_MATCHDAY
    THEN [text |-> "Unvalid matchday", matchday |-> matchday, lines |-> <<>>]
    ELSE LET Has(item) == matchday \in OKeys(item.v.matchday_scores)
             having    == SelectSeq(S.table, Has)
             scores    == SortByScore([i \in 1..Len(having) |->
                              [team_name |-> having[i].k,
                               score     |-> OGet(having[i].v.matchday_scores, matchday)]])
         IN  IF scores = <<>>
             THEN [text |-> "No scores available", matchday |-> matchday,
                   lines |-> <<>>]
             ELSE [text |-> "Scores for matchday", matchday |-> matchday,
                   lines |-> [i \in 1..Len(scores) |->
                                 [rank      |-> i,
                                  team_name |-> scores[i].team_name,
                                  score     |-> Round1(scores[i].score)]]]

\* mutant: a team without the matchday is given a score of 0 for it, as a
\* lookup with a default that is stored would do
get_matchday_scores_Defaulting(S, matchday) ==
    IF matchday < FIRST_MATCHDAY \/ matchday > LAST_MATCHDAY
    THEN [season |-> S, value |-> MatchdayScoresText(S, matchday)]
    ELSE LET filled == [i \in 1..Len(S.table) |->
                          [S.table[i] EXCEPT !.v.matchday_scores =
                              IF matchday \in OKeys(@) THEN @
                              ELSE OPut(@, matchday, Zero)]]
             after  == [S EXCEPT !.table = filled]
         IN  [season |-> after, value |-> MatchdayScoresText(after, matchday)]

\* Season.get_matchday_scores: the season after the call and the text returned
get_matchday_scores(S, matchday) ==
    [season |-> S, value |-> MatchdayScoresText(S, matchday)]

\* Season.get_team_progression: the season after the call and the dict returned
\* ({} for a name that is not a key of the table)
get_team_progression(S, team_name) ==
    IF team_name \notin OKeys(S.table)
    THEN [season |-> S, value |-> EmptyDict]
    ELSE LET season_table == OGet(S.table, team_name)
             Recorded(matchday) == matchday \in OKeys(season_table.matchday_scores)
             \* the matchdays of range(1, 39) that pass the `in` test, in loop order
             days     == SelectSeq([m \in 1..(LAST_MATCHDAY - FIRST_MATCHDAY + 1) |->
                                       m + FIRST_MATCHDAY - 1], Recorded)
             score(k) == OGet(season_table.matchday_scores, days[k])
             \* cumulative_points after the k-th of them: "+=" from 0, in loop order
             cumulative_points(k) == FSum([j \in 1..k |-> score(j)])
         IN  [season |-> S,
              value  |->
                 [team        |-> team_name,
                  progression |->
                     [k \in 1..Len(days) |->
                         [matchday          |-> days[k],
                          score             |-> score(k),
                          cumulative_points |-> Round1(cumulative_points(k))]],
                  final_total |-> cumulative_points(Len(days))]]

\* the loop "for matchday in range(1, 39): self.process_matchday(matchday)",
\* from `matchday` up to stop - 1: the season it leaves and the exception that
\* ended it early.  The matchdays are taken one after the other; the range is
\* walked as its first half followed by its second half.
RECURSIVE ProcessRange(_, _, _)
ProcessRange(S, matchday, stop) ==
    IF matchday >= stop THEN [season |-> S, raised |-> "none"]
    ELSE IF matchday + 1 = stop
    THEN CHOOSE loop \in
             {[season |-> r.season, raised |-> r.raised] :
                 r \in {process_matchday(S, matchday)}} : TRUE
    ELSE CHOOSE loop \in
             {IF first.raised # "none" THEN first
              ELSE ProcessRange(first.season, (matchday + stop) \div 2, stop) :
                 first \in {ProcessRange(S, matchday, (matchday + stop) \div 2)}} : TRUE

\* mutant: the loop runs from matchday 38 down to matchday 1
RECURSIVE ProcessRangeDown(_, _, _)
ProcessRangeDown(S, matchday, stop) ==
    IF matchday < stop THEN [season |-> S, raised |-> "none"]
    ELSE IF matchday = stop
    THEN CHOOSE loop \in
             {[season |-> r.season, raised |-> r.raised] :
                 r \in {process_matchday(S, matchday)}} : TRUE
    ELSE CHOOSE loop \in
             {IF first.raised # "none" THEN first
              ELSE ProcessRangeDown(first.season, ((matchday + stop + 1) \div 2) - 1, stop) :
                 first \in {ProcessRangeDown(S, matchday, (matchday + stop + 1) \div 2)}} : TRUE

process_complete_season_Down(S) ==
    CHOOSE outcome \in
        {IF loop.raised # "none"
         THEN [season |-> loop.season, raised |-> loop.raised, value |-> EmptyDict]
         ELSE CHOOSE result \in
                  {[season |-> done, raised |-> "none", value |-> get_season_summary(done)] :
                      done \in {[loop.season EXCEPT !.season_completed = TRUE]}} : TRUE :
            loop \in {ProcessRangeDown(S, LAST_MATCHDAY, FIRST_MATCHDAY)}} : TRUE

\* Season.process_complete_season: an exception of process_matchday leaves the
\* loop and the method before the flag is set
process_complete_season(S) ==
    CHOOSE outcome \in
        {IF loop.raised # "none"
         THEN [season |-> loop.season, raised |-> loop.raised, value |-> EmptyDict]
         ELSE CHOOSE result \in
                  {[season |-> done, raised |-> "none", value |-> get_season_summary(done)] :
                      done \in {[loop.season EXCEPT !.season_completed = TRUE]}} : TRUE :
            loop \in {ProcessRange(S, 1, 39)}} : TRUE

(***************************************************************************)
(* Cells.  A cell of a sheet after `cell if pd.notna(cell) else None`:     *)
(* None, a str or a number.  A number is held as an integer: a code or a   *)
(* count as it is, a rating in hundredths.                                 *)
(***************************************************************************)
NoCell == [type |-> "none", s |-> "", n |-> 0]

Text(s) == [type |-> "str", s |-> s, n |-> 0]

Number(n) == [type |-> "num", s |-> "", n |-> n]

(***************************************************************************)
(* Standardizer: FantacalcioDataProcessor.standardize_player_lists.        *)
(* A matchday CSV file is [readable, writable, rows]: whether pd.read_csv  *)
(* succeeds on it, whether df.to_csv can write it, and its records in file *)
(* order.  A record has the columns Team, Cod, Role, Name and the ten      *)
(* numeric columns.  Team, Role and Name hold the text of the cell, with   *)
(* "" for an empty cell, which pd.read_csv gives as NaN; a numeric column  *)
(* holds the number, NaN for an empty cell, NotANumber for a text.         *)
(***************************************************************************)
\* str comparison, for the strings the record sets use
StringOrder ==
    <<"7", "A", "Bianchi", "C", "D", "Inter", "Milan", "Neri", "P", "Rossi", "Verdi">>

StrRank(str) == CHOOSE i \in DOMAIN StringOrder : StringOrder[i] = str

\* player_key = (row['Team'], row['Cod'], row['Role'], row['Name'])
player_key(row) == <<row.Team, row.Cod, row.Role, row.Name>>

KeysOf(rows) == {player_key(rows[i]) : i \in DOMAIN rows}

\* step 1, one file: the keys not seen yet are added to all_players, in row order
RECURSIVE CollectRows(_, _)
CollectRows(all_players, rows) ==
    IF rows = <<>> THEN all_players
    ELSE CollectRows(
             IF player_key(Head(rows)) \in Range(all_players) THEN all_players
             ELSE Append(all_players, player_key(Head(rows))),
             Tail(rows))

\* mutant: only the first file is read for the player collection
RECURSIVE CollectFiles(_, _)
CollectFiles_FirstOnly(all_players, fs) ==
    IF fs = <<>> THEN all_players
    ELSE IF Head(fs).readable THEN CollectRows(all_players, Head(fs).rows)
         ELSE CollectFiles(all_players, Tail(fs))

\* step 1: all_players over every file that can be read (the others are
\* skipped); no file is written in this step
CollectFiles(all_players, fs) ==
    IF fs = <<>> THEN all_players
    ELSE CollectFiles(
             IF Head(fs).readable THEN CollectRows(all_players, Head(fs).rows)
             ELSE all_players,
             Tail(fs))

\* mutant: the record added for a missing player carries a rating of 6
missing_record_Rated(key) ==
    [Team |-> key[1], Cod |-> key[2], Role |-> key[3], Name |-> key[4],
     Rating |-> 600, Gf |-> 0, Gs |-> 0, Rp |-> 0, Rs |-> 0, Rf |-> 0,
     Au |-> 0, Amm |-> 0, Esp |-> 0, Ass |-> 0]

\* the record added for a missing player: the template and ten zeros
missing_record(key) ==
    [Team |-> key[1], Cod |-> key[2], Role |-> key[3], Name |-> key[4],
     Rating |-> 0, Gf |-> 0, Gs |-> 0, Rp |-> 0, Rs |-> 0, Rf |-> 0,
     Au |-> 0, Amm |-> 0, Esp |-> 0, Ass |-> 0]

\* the order of df.sort_values(['Team', 'Role', 'Name']); within one column
\* the order of str, with NaN (an empty cell) last
RowBefore(a, b) ==
    LET StrBefore(x, y) == x # "" /\ (y = "" \/ StrRank(x) < StrRank(y))
    IN  \/ StrBefore(a.Team, b.Team)
        \/ /\ a.Team = b.Team
           /\ \/ StrBefore(a.Role, b.Role)
              \/ a.Role = b.Role /\ StrBefore(a.Name, b.Name)

\* rows that compare equal keep their order
RECURSIVE InsertRow(_, _)
InsertRow(sorted, row) ==
    IF sorted = <<>> THEN <<row>>
    ELSE IF RowBefore(row, Head(sorted)) THEN <<row>> \o sorted
         ELSE <<Head(sorted)>> \o InsertRow(Tail(sorted), row)

RECURSIVE sort_values(_)
sort_values(rows) ==
    IF rows = <<>> THEN <<>>
    ELSE InsertRow(sort_values(SubSeq(rows, 1, Len(rows) - 1)), rows[Len(rows)])

\* step 2, one file: the missing players are appended, the file is sorted and
\* saved.  The read, the merge, the sort and the write are in one try block:
\* when pd.read_csv raises, and when df.to_csv raises on a file that step 1
\* read and took the keys of, the except branch leaves the file as it was
standardize_file(f, all_players) ==
    IF ~ f.readable THEN f
    ELSE IF ~ f.writable THEN f
    ELSE LET existing_players == KeysOf(f.rows)
             IsMissing(key)   == key \notin existing_players
             missing_keys     == SelectSeq(all_players, IsMissing)
             missing_players  == [i \in 1..Len(missing_keys) |->
                                     missing_record(missing_keys[i])]
         IN  [f EXCEPT !.rows = sort_values(f.rows \o missing_players)]

\* mutant: a file whose standardization failed is left out of the list
standardized_files_SavedOnly(fs) ==
    LET Saved(i) == fs[i].readable /\ fs[i].writable
    IN  SelectSeq([i \in 1..Len(fs) |-> i], Saved)

\* step 2, the list returned: a file is appended after it was saved and also
\* when its standardization failed; a file is named by its place in csv_files
standardized_files(fs) == [i \in 1..Len(fs) |-> i]

\* standardize_player_lists: the files afterwards and the list returned
standardize_player_lists(fs) ==
    LET all_players == CollectFiles(<<>>, fs)
    IN  [files    |-> [i \in 1..Len(fs) |-> standardize_file(fs[i], all_players)],
         returned |-> standardized_files(fs)]

(***************************************************************************)
(* Converter: FantacalcioDataProcessor.excel_to_csv and the two            *)
(* excel_to_csv_players_only functions.  A workbook is [readable, sheet]:  *)
(* whether the path exists, is an Excel file and pd.read_excel succeeds on *)
(* it, and the rows of its first sheet.  A sheet row is row_data, the list *)
(* of its cells.                                                           *)
(***************************************************************************)
\* the texts of the inputs in which one of the keywords 'Voti Fantacalcio',
\* 'www.fantacalcio.it', 'QUESTO FILE', 'USO PERSONALE' occurs
KeywordTexts ==
    {"Voti Fantacalcio Stagione 2024 25 Giornata 1", "QUESTO FILE E' PER USO PERSONALE"}

\* the truth value Python gives a cell
Truthy(cell) ==
    \/ cell.type = "str" /\ cell.s # ""
    \/ cell.type = "num" /\ cell.n # 0

\* all(cell is None or cell == '' for cell in row_data)
IsEmptyRow(row_data) == \A i \in DOMAIN row_data : row_data[i] \in {NoCell, Text("")}

\* a keyword in str(row_data[0]); the str of a number holds no keyword
_is_header_or_footer_row(row_data) ==
    IF Len(row_data) = 0 \/ ~ Truthy(row_data[1]) THEN FALSE
    ELSE row_data[1].type = "str" /\ row_data[1].s \in KeywordTexts

_is_column_header_row(row_data) ==
    /\ Len(row_data) >= 3
    /\ row_data[1] = Text("Cod.")
    /\ row_data[2] = Text("Ruolo")
    /\ row_data[3] = Text("Nome")

_is_team_name_row(row_data) ==
    /\ Len(row_data) >= 1
    /\ Truthy(row_data[1])
    /\ \A i \in 2..Len(row_data) : row_data[i] \in {NoCell, Text("")}
    /\ ~ _is_header_or_footer_row(row_data)

\* a number, a str and a str in the first three of at least four cells;
\* coaches (role "ALL") are excluded
_is_player_data_row(row_data) ==
    /\ Len(row_data) >= 4
    /\ row_data[1].type = "num"
    /\ row_data[2].type = "str" /\ row_data[2] # Text("ALL")
    /\ row_data[3].type = "str"

\* current_team before the first team row: None
NoTeam == NoCell

\* the dict of one player row: the team as current_team holds it, int() of
\* the code, and the other cells as they are; the k-th cell, counted from 1,
\* is row_data[k - 1] if len(row_data) > k - 1 else None
_create_player_record(row_data, team) ==
    LET CellOrNone(k) == IF Len(row_data) >= k THEN row_data[k] ELSE NoCell
    IN  [Team   |-> team,
         Cod    |-> row_data[1].n,
         Role   |-> row_data[2],
         Name   |-> row_data[3],
         Rating |-> CellOrNone(4),
         Gf     |-> CellOrNone(5),
         Gs     |-> CellOrNone(6),
         Rp     |-> CellOrNone(7),
         Rs     |-> CellOrNone(8),
         Rf     |-> CellOrNone(9),
         Au     |-> CellOrNone(10),
         Amm    |-> CellOrNone(11),
         Esp    |-> CellOrNone(12),
         Ass    |-> CellOrNone(13)]

\* the loop over df.iterrows(): players_data so far, current_team, rows to go;
\* a team row makes its first cell, text or number, the current team
RECURSIVE ExtractRows(_, _, _)
ExtractRows(players_data, current_team, sheet) ==
    IF sheet = <<>> THEN players_data
    ELSE LET row_data == Head(sheet)
         IN  IF IsEmptyRow(row_data) \/ _is_header_or_footer_row(row_data)
                    \/ _is_column_header_row(row_data)
             THEN ExtractRows(players_data, current_team, Tail(sheet))
             ELSE IF _is_team_name_row(row_data)
             THEN ExtractRows(players_data, row_data[1], Tail(sheet))
             ELSE IF _is_player_data_row(row_data)
             THEN ExtractRows(Append(players_data,
                                     _create_player_record(row_data, current_team)),
                              current_team, Tail(sheet))
             ELSE ExtractRows(players_data, current_team, Tail(sheet))

_extract_player_data(sheet) == ExtractRows(<<>>, NoTeam, sheet)

\* pd.DataFrame(players_data).to_csv(output_csv_path, index=False): the
\* records of the file written, in the order of players_data.  A cell of the
\* Team, Role or Name column is written as its text, the numeral of a number,
\* or nothing for None; the column holds a text in some row of every file of
\* the inputs, so pd.read_csv gives each of its cells as a str, a numeral too,
\* and an empty cell as NaN.  A cell of a numeric column holds the number,
\* nothing (NaN) or a text.
to_csv(players_data) ==
    LET CsvText(cell) ==
            IF cell.type = "str" THEN cell.s
            ELSE IF cell.type = "num" THEN ToString(cell.n)
            ELSE ""
        CsvNumber(cell) ==
            IF cell.type = "num" THEN cell.n
            ELSE IF cell.type = "str" /\ cell.s # "" THEN NotANumber
            ELSE NaN
    IN  [i \in DOMAIN players_data |->
            [Team   |-> CsvText(players_data[i].Team),
             Cod    |-> players_data[i].Cod,
             Role   |-> CsvText(players_data[i].Role),
             Name   |-> CsvText(players_data[i].Name),
             Rating |-> CsvNumber(players_data[i].Rating),
             Gf     |-> CsvNumber(players_data[i].Gf),
             Gs     |-> CsvNumber(players_data[i].Gs),
             Rp     |-> CsvNumber(players_data[i].Rp),
             Rs     |-> CsvNumber(players_data[i].Rs),
             Rf     |-> CsvNumber(players_data[i].Rf),
             Au     |-> CsvNumber(players_data[i].Au),
             Amm    |-> CsvNumber(players_data[i].Amm),
             Esp    |-> CsvNumber(players_data[i].Esp),
             Ass    |-> CsvNumber(players_data[i].Ass)]]

\* excel_to_csv: the file written, in sheet order, not sorted and not
\* completed; nothing is written (FileProcessingError) when the workbook
\* cannot be read, holds no player data, or to_csv cannot write the output
\* path (writable)
excel_to_csv(workbook, writable) ==
    IF ~ workbook.readable
    THEN [raised |-> TRUE, written |-> FALSE, rows |-> <<>>]
    ELSE LET players_data == _extract_player_data(workbook.sheet)
         IN  IF players_data = <<>> \/ ~ writable
             THEN [raised |-> TRUE, written |-> FALSE, rows |-> <<>>]
             ELSE [raised |-> FALSE, written |-> TRUE, rows |-> to_csv(players_data)]

\* excel_to_csv_players_only: the same extraction, but an empty players_data is
\* written too (a file without columns); every exception is caught and None
\* returned
excel_to_csv_players_only(workbook, writable) ==
    IF ~ workbook.readable \/ ~ writable
    THEN [raised |-> FALSE, written |-> FALSE, rows |-> <<>>]
    ELSE [raised |-> FALSE, written |-> TRUE,
          rows |-> to_csv(_extract_player_data(workbook.sheet))]

\* the file list after to_csv wrote rows as the i-th file: an existing file is
\* overwritten, the next file is created; pd.read_csv raises on a file
\* without columns
WriteFile(fs, i, rows) ==
    IF i \in DOMAIN fs
    THEN [fs EXCEPT ![i] = [readable |-> rows # <<>>, writable |-> TRUE, rows |-> rows]]
    ELSE Append(fs, [readable |-> rows # <<>>, writable |-> TRUE, rows |-> rows])

\* batch_process_excel_files: every workbook of the input directory is converted
\* into the file of its matchday (a failed conversion is logged and leaves the
\* file as it was), then the files converted in this call are standardized
\* together.  order is the order in which glob listed the workbooks.
RECURSIVE ConvertAll(_, _, _)
ConvertAll(fs, batch, order) ==
    IF order = <<>> THEN [files |-> fs, temp_csv_files |-> <<>>]
    ELSE LET i      == Head(order)
             csv    == excel_to_csv(batch[i], i \notin DOMAIN fs \/ fs[i].writable)
             others == ConvertAll(IF csv.written THEN WriteFile(fs, i, csv.rows) ELSE fs,
                                  batch, Tail(order))
         IN  [files          |-> others.files,
              temp_csv_files |-> IF csv.written THEN <<i>> \o others.temp_csv_files
                                 ELSE others.temp_csv_files]

batch_process_excel_files(fs, batch, order) ==
    LET converted      == ConvertAll(fs, batch, order)
        temp_csv_files == converted.temp_csv_files
        standardized   == standardize_player_lists(
                              [k \in 1..Len(temp_csv_files) |->
                                  converted.files[temp_csv_files[k]]]).files
        Place(i)       == CHOOSE k \in DOMAIN temp_csv_files : temp_csv_files[k] = i
    IN  [i \in DOMAIN converted.files |->
            IF i \in Range(temp_csv_files) THEN standardized[Place(i)]
            ELSE converted.files[i]]

(***************************************************************************)
(* Loader (loader.py).  A matchday CSV file is the sequence of its rows;   *)
(* an empty numeric cell reads as NaN.  The files are held in a sequence   *)
(* indexed by matchday number, matchday 1 being the reference file         *)
(* (sorted(csv_files)[0]).  Team, its constructor and add_player are not   *)
(* part of the sources: a Team built by the loader is its name, its        *)
(* player_codes and its list of Player objects.                            *)
(***************************************************************************)
NewRosterTeam(name, player_codes) ==
    [name |-> name, player_codes |-> player_codes, players |-> <<>>]

\* Team.add_player
add_player(team, p) == [team EXCEPT !.players = Append(@, p)]

\* create_name_to_code_mapping: name_to_code[name] = cod, row after row
RECURSIVE NameToCode(_, _)
NameToCode(name_to_code, rows) ==
    IF rows = <<>> THEN name_to_code
    ELSE NameToCode(Put(name_to_code, Head(rows).Name, Head(rows).Cod), Tail(rows))

create_name_to_code_mapping(rows) == NameToCode(EmptyDict, rows)

\* player_info.split(' (')[0].strip(): an entry "Rossi (Inter)" of a roster is
\* held as [name |-> "Rossi", note |-> "Inter"]
player_name(player_info) == player_info.name

\* the names of a roster resolved one by one; a name that is not in the
\* mapping is reported and skipped
RECURSIVE ResolveNames(_, _, _)
ResolveNames(player_codes, infos, name_to_code) ==
    IF infos = <<>> THEN player_codes
    ELSE ResolveNames(
             IF player_name(Head(infos)) \in DOMAIN name_to_code
             THEN Append(player_codes, name_to_code[player_name(Head(infos))])
             ELSE player_codes,
             Tail(infos), name_to_code)

\* one entry of the JSON list: the codes under 'players' if the key is there,
\* else the names under the four role keys, in that order
TeamFromConfig(team_config, name_to_code) ==
    NewRosterTeam(team_config.name,
        IF "players" \in DOMAIN team_config THEN team_config.players
        ELSE ResolveNames(<<>>,
                 Get(team_config, "goalkeepers", <<>>) \o Get(team_config, "defenders", <<>>)
                 \o Get(team_config, "midfielders", <<>>) \o Get(team_config, "forwards", <<>>),
                 name_to_code))

\* load_teams_from_json
load_teams_from_json(teams_config, first_csv) ==
    LET name_to_code == create_name_to_code_mapping(first_csv)
    IN  [i \in DOMAIN teams_config |-> TeamFromConfig(teams_config[i], name_to_code)]

\* x if pd.notna(x) else 0
NotNaOrZero(x) == IF x = NaN THEN 0 ELSE x

\* the dict load_player_data_from_csv builds for one row: Rating is taken as
\* it is, the nine counts through pd.notna
RowData(row) ==
    [Team |-> row.Team, Role |-> row.Role, Name |-> row.Name,
     Rating |-> row.Rating,
     Gf  |-> NotNaOrZero(row.Gf),  Gs  |-> NotNaOrZero(row.Gs),
     Rp  |-> NotNaOrZero(row.Rp),  Rs  |-> NotNaOrZero(row.Rs),
     Rf  |-> NotNaOrZero(row.Rf),  Au  |-> NotNaOrZero(row.Au),
     Amm |-> NotNaOrZero(row.Amm), Esp |-> NotNaOrZero(row.Esp),
     Ass |-> NotNaOrZero(row.Ass)]

\* players_data[cod] = {...}, row after row
RECURSIVE PlayersData(_, _)
PlayersData(players_data, rows) ==
    IF rows = <<>> THEN players_data
    ELSE PlayersData(Put(players_data, Head(rows).Cod, RowData(Head(rows))), Tail(rows))

load_player_data_from_csv(rows) == PlayersData(EmptyDict, rows)

role_mapping == [P |-> "G", D |-> "D", C |-> "M", A |-> "F"]

\* the codes of one team: a Player per code found in players_data; Role(role)
\* raises ValueError for a value that is not one of the enumeration
RECURSIVE PopulateTeam(_, _, _)
PopulateTeam(team, codes, players_data) ==
    IF codes = <<>> THEN [team |-> team, raised |-> "none"]
    ELSE IF Head(codes) \notin DOMAIN players_data
         THEN PopulateTeam(team, Tail(codes), players_data)
         ELSE LET data == players_data[Head(codes)]
                  role == Get(role_mapping, data.Role, data.Role)
              IN  IF role \notin Roles
                  THEN [team |-> team, raised |-> "ValueError"]
                  ELSE PopulateTeam(add_player(team, NewPlayer(Head(codes), role)),
                                    Tail(codes), players_data)

RECURSIVE PopulateTeams(_, _, _)
PopulateTeams(ts, i, players_data) ==
    IF i > Len(ts) THEN [teams |-> ts, raised |-> "none"]
    ELSE LET r == PopulateTeam(ts[i], ts[i].player_codes, players_data)
         IN  IF r.raised # "none"
             THEN [teams |-> [ts EXCEPT ![i] = r.team], raised |-> r.raised]
             ELSE PopulateTeams([ts EXCEPT ![i] = r.team], i + 1, players_data)

\* populate_teams_with_players: the teams afterwards and what the call raised
populate_teams_with_players(ts, first_csv) ==
    PopulateTeams(ts, 1, load_player_data_from_csv(first_csv))

\* the Player objects of the teams, each named by its team and its place
PlayerRefs(ts) ==
    UNION {{<<ti, pi>> : pi \in DOMAIN ts[ti].players} : ti \in DOMAIN ts}

\* all_players[player.cod] = player over the teams and their players in
\* order: of the objects that share a code the last one is kept
all_players_by_cod(ts) ==
    LET refs      == PlayerRefs(ts)
        CodOf(r)  == ts[r[1]].players[r[2]].cod
        Later(a, b) == a[1] > b[1] \/ (a[1] = b[1] /\ a[2] >= b[2])
    IN  [cod \in {CodOf(r) : r \in refs} |->
            CHOOSE r \in refs : /\ CodOf(r) = cod
                                 /\ \A q \in refs : CodOf(q) = cod => Later(r, q)]

\* the keys of matchday_data, in the order matchday_data.items() gives them:
\* the order in which the rows of the file first carry them
RECURSIVE CodOrder(_)
CodOrder(rows) ==
    IF rows = <<>> THEN <<>>
    ELSE CHOOSE cods \in
             {IF \E i \in DOMAIN before : before[i] = rows[Len(rows)].Cod
              THEN before
              ELSE Append(before, rows[Len(rows)].Cod) :
                 before \in {CodOrder(SubSeq(rows, 1, Len(rows) - 1))}} : TRUE

\* the loop over matchday_data.items(): add_matchday_stats, then
\* add_matchday_fantavoto, on the object all_players holds for the code.  The
\* TypeError of a rating that is not a number leaves the loop: the player has
\* the record and no fantavoto, the codes after it are not reached.
RECURSIVE LoadRows(_, _, _, _, _)
LoadRows(ts, all_players, matchday_num, matchday_data, cods) ==
    IF cods = <<>> THEN [teams |-> ts, raised |-> "none"]
    ELSE IF Head(cods) \notin DOMAIN all_players
    THEN LoadRows(ts, all_players, matchday_num, matchday_data, Tail(cods))
    ELSE CHOOSE loop \in
             {IF calculate_fantavoto(p, matchday_num) = Raised
              THEN [teams  |-> [ts EXCEPT ![ref[1]].players[ref[2]] = p],
                    raised |-> "TypeError"]
              ELSE LoadRows([ts EXCEPT ![ref[1]].players[ref[2]] =
                                 add_matchday_fantavoto(p, matchday_num)],
                            all_players, matchday_num, matchday_data, Tail(cods)) :
                 ref \in {all_players[Head(cods)]},
                 p   \in {add_matchday_stats(
                              ts[all_players[Head(cods)][1]].players[all_players[Head(cods)][2]],
                              matchday_num, matchday_data[Head(cods)])}} : TRUE

\* one matchday file: the teams after it and what loading it raised
LoadMatchday(ts, all_players, matchday_num, rows) ==
    LoadRows(ts, all_players, matchday_num, load_player_data_from_csv(rows), CodOrder(rows))

\* the loop over the files: an exception leaves it, the later files are not
\* loaded
RECURSIVE LoadFiles(_, _, _, _)
LoadFiles(ts, all_players, csv_files, matchday_num) ==
    IF matchday_num > Len(csv_files) THEN [teams |-> ts, raised |-> "none"]
    ELSE CHOOSE loop \in
             {IF r.raised # "none" THEN r
              ELSE LoadFiles(r.teams, all_players, csv_files, matchday_num + 1) :
                 r \in {LoadMatchday(ts, all_players, matchday_num,
                                     csv_files[matchday_num])}} : TRUE

\* load_all_matchday_stats: the teams afterwards and what the call raised
load_all_matchday_stats(ts, csv_files) ==
    LoadFiles(ts, all_players_by_cod(ts), csv_files, 1)

(***************************************************************************)
(* Bounds and inputs                                                       *)
(***************************************************************************)
MaxTableMatchday  == 3     \* matchdays a stand-alone SeasonTable is fed
MaxPlayerMatchday == 2     \* matchdays a stand-alone Player is fed
MaxCount          == 1     \* largest goal / card / penalty count in a formula input

\* scores: halves, which floats hold exactly, and tenths, which they do not
ScoreInputs  == {Float(h) : h \in {10, 20, 500, 700}}
\* ratings: the "did not play" 0, and ratings whose fantavoto is or is not
\* exact in binary (6.25 rounds to 6.2; 4.15 - 0.5 to 3.7; 5.45 + 3 - 0.5 to 7.9)
RatingInputs == {0, 600, 625, 415, 545}

\* complete records: every numeric column present
FullStats ==
    {[Rating |-> r, Gf |-> gf, Gs |-> gs, Rp |-> rp, Rs |-> rs, Rf |-> rf,
      Au |-> au, Amm |-> amm, Esp |-> esp, Ass |-> ass] :
        r \in RatingInputs, gf \in 0..MaxCount, gs \in 0..(MaxCount + 1),
        rp \in 0..MaxCount, rs \in 0..MaxCount, rf \in 0..MaxCount,
        au \in 0..MaxCount, amm \in 0..MaxCount, esp \in 0..MaxCount,
        ass \in 0..MaxCount}

\* dicts with keys missing (stats.get(key, 0) supplies the default)
PartialStats == {EmptyDict, [Gf |-> 1, Ass |-> 1], [Rating |-> 600, Gf |-> 1]}

FormulaInputs == FullStats \cup PartialStats

\* a few records for the Player life cycle
StatsInputs ==
    {[Rating |-> 0, Gf |-> 1, Gs |-> 0, Rp |-> 0, Rs |-> 0, Rf |-> 0,
      Au |-> 0, Amm |-> 0, Esp |-> 0, Ass |-> 0],
     [Rating |-> 600, Gf |-> 1, Gs |-> 0, Rp |-> 0, Rs |-> 0, Rf |-> 0,
      Au |-> 0, Amm |-> 0, Esp |-> 0, Ass |-> 1],
     [Rating |-> 625, Gf |-> 0, Gs |-> 2, Rp |-> 0, Rs |-> 0, Rf |-> 0,
      Au |-> 0, Amm |-> 1, Esp |-> 0, Ass |-> 0],
     [Gf |-> 1, Ass |-> 1]}

(***************************************************************************)
(* The teams a Season is built from.  Each Player is built as              *)
(* populate_teams_with_players and load_all_matchday_stats build it: for   *)
(* every loaded matchday, add_matchday_stats then add_matchday_fantavoto.  *)
(* Matchdays 1 and 2 are loaded; the later matchdays have no record yet.   *)
(***************************************************************************)
MaxTeams == 2     \* teams in a Season

Rec(rating, gf, gs, amm, ass) ==
    [Rating |-> rating, Gf |-> gf, Gs |-> gs, Rp |-> 0, Rs |-> 0, Rf |-> 0,
     Au |-> 0, Amm |-> amm, Esp |-> 0, Ass |-> ass]

RECURSIVE LoadPlayer(_, _, _)
LoadPlayer(p, data, matchday) ==
    IF matchday > Len(data) THEN p
    ELSE CHOOSE loaded \in
             {IF calculate_fantavoto(with_stats, matchday) = Raised THEN with_stats
              ELSE LoadPlayer(add_matchday_fantavoto(with_stats, matchday),
                              data, matchday + 1) :
                 with_stats \in {add_matchday_stats(p, matchday, data[matchday])}} : TRUE

\* forward: 10.0 on matchday 1 (6 + goal + assist), 6.0 on matchday 2 (6.5 - 0.5)
Striker  == LoadPlayer(NewPlayer(1, "F"), <<Rec(600, 1, 0, 0, 1), Rec(650, 0, 0, 1, 0)>>, 1)
\* goalkeeper: 7.5 on matchday 1 (6.5 + clean sheet), 4.0 on matchday 2 (6 - 2 conceded)
Keeper   == LoadPlayer(NewPlayer(2, "G"), <<Rec(650, 0, 0, 0, 0), Rec(600, 0, 2, 0, 0)>>, 1)
\* defender: did not play on matchday 1 (stats leak a goal), 11.5 on matchday 2
Defender == LoadPlayer(NewPlayer(3, "D"), <<Rec(0, 1, 0, 0, 0), Rec(650, 1, 2, 0, 2)>>, 1)
\* winger: 6.1, 6.2 and 6.3 on matchdays 1, 2 and 3, tenths that no float holds
\* exactly: 6.1 + 6.2 + 6.3 is 18.6 and 6.1 + 6.3 + 6.2 is 18.599999999999998
Winger   == LoadPlayer(NewPlayer(5, "M"),
                       <<Rec(610, 0, 0, 0, 0), Rec(620, 0, 0, 0, 0), Rec(630, 0, 0, 0, 0)>>, 1)
\* midfielder whose Rating cell of matchday 1 was empty: NaN on matchday 1,
\* 6.0 on matchday 2
Unrated  == LoadPlayer(NewPlayer(6, "M"), <<Rec(NaN, 0, 0, 0, 0), Rec(600, 0, 0, 0, 0)>>, 1)

TeamOptions ==
    {NewTeam("A", <<Striker>>),
     NewTeam("B", <<Keeper>>),
     NewTeam("A", <<Keeper, Defender>>),     \* a second team named "A"
     NewTeam("D", <<>>)}                     \* an empty roster

\* midfielder: 6.0 on matchday 1; the rating stored for matchday 2 is not a
\* number, so that scoring the player for matchday 2 raises
Broken ==
    add_matchday_stats(LoadPlayer(NewPlayer(4, "M"), <<Rec(600, 0, 0, 0, 0)>>, 1),
                       2, Rec(NotANumber, 0, 0, 0, 0))

\* the team lists with a team that cannot be scored for matchday 2, placed
\* before or after a team that can
FailTeamLists ==
    LET Options == {NewTeam("A", <<Striker>>), NewTeam("B", <<Keeper>>),
                    NewTeam("E", <<Broken>>), NewTeam("E", <<Keeper, Broken>>)}
        CannotBeScored(team) == \E i \in DOMAIN team.players : team.players[i] = Broken
    IN  {ts \in [1..2 -> Options] :
            /\ ts[1] # ts[2]
            /\ \E i \in 1..2 : CannotBeScored(ts[i])}

\* the team lists: 1..MaxTeams different Team objects, in any order
TeamLists ==
    UNION {{ts \in [1..n -> TeamOptions] : \A i, j \in 1..n : i # j => ts[i] # ts[j]} :
              n \in 1..MaxTeams}

\* the team lists of the ranking specification: up to MaxRankTeams teams, two
\* of them (B and C) level on 11.5 points after matchdays 1 and 2, and team N
\* with a total that is NaN once matchday 1 is processed
MaxRankTeams == 3

RankTeamOptions ==
    {NewTeam("A", <<Winger>>),
     NewTeam("B", <<Keeper>>),
     NewTeam("C", <<Defender>>),
     NewTeam("A", <<Keeper>>),               \* a second team named "A"
     NewTeam("N", <<Unrated>>)}              \* a team whose matchday 1 score is NaN

RankTeamLists ==
    UNION {{ts \in [1..n -> RankTeamOptions] : \A i, j \in 1..n : i # j => ts[i] # ts[j]} :
              n \in 1..MaxRankTeams}

(***************************************************************************)
(* The matchday files handed to the standardizer                           *)
(***************************************************************************)
MaxFiles == 2     \* matchday files in one standardization

Row(team, cod, role, name, rating, gf) ==
    [Team |-> team, Cod |-> cod, Role |-> role, Name |-> name,
     Rating |-> rating, Gf |-> gf, Gs |-> 0, Rp |-> 0, Rs |-> 0, Rf |-> 0,
     Au |-> 0, Amm |-> 0, Esp |-> 0, Ass |-> 0]

RowX  == Row("Inter", 1, "A", "Rossi", 600, 1)
RowY  == Row("Inter", 2, "P", "Bianchi", 650, 0)
RowZ  == Row("Milan", 3, "D", "Verdi", 550, 0)
\* player 1 after a transfer: same code, other team
RowX2 == Row("Milan", 1, "A", "Rossi", 700, 2)

RowLists ==
    {<<>>, <<RowX, RowY>>, <<RowX, RowZ>>, <<RowY, RowX>>, <<RowZ>>,
     <<RowX2, RowY>>, <<RowZ, RowY, RowX>>}

\* a file that cannot be read, a file that is read but cannot be written
\* (a read-only file), a file that is neither, and a file that is both
FileOptions ==
    {[readable |-> r, writable |-> w, rows |-> rows] :
        r \in BOOLEAN, w \in BOOLEAN, rows \in RowLists}

FileLists == UNION {[1..n -> FileOptions] : n \in 0..MaxFiles}

(***************************************************************************)
(* The workbooks handed to the converter.  A sheet has thirteen columns,   *)
(* Cod. to Ass, or only the first five.                                    *)
(***************************************************************************)
\* a row of a sheet of the given width: the cells given, then empty cells
Pad(cells, width) == cells \o [i \in 1..(width - Len(cells)) |-> NoCell]

TitleRow(width) ==
    Pad(<<Text("Voti Fantacalcio Stagione 2024 25 Giornata 1")>>, width)

FooterRow(width) == Pad(<<Text("QUESTO FILE E' PER USO PERSONALE")>>, width)

ColumnRow(width) ==
    SubSeq(<<Text("Cod."), Text("Ruolo"), Text("Nome"), Text("Voto"), Text("Gf"),
             Text("Gs"), Text("Rp"), Text("Rs"), Text("Rf"), Text("Au"),
             Text("Amm"), Text("Esp"), Text("Ass")>>, 1, width)

BlankRow(width) == Pad(<<>>, width)

\* the name of a team, a text or a number, alone in its row
TeamRow(name, width) == Pad(<<name>>, width)

\* the cell of a numeric column: empty where the record has NaN
StatCell(x) == IF x = NaN THEN NoCell ELSE Number(x)

\* the thirteen cells of the player row that is written as record r
PlayerRow(r) ==
    <<Number(r.Cod), Text(r.Role), Text(r.Name), StatCell(r.Rating), StatCell(r.Gf),
      StatCell(r.Gs), StatCell(r.Rp), StatCell(r.Rs), StatCell(r.Rf), StatCell(r.Au),
      StatCell(r.Amm), StatCell(r.Esp), StatCell(r.Ass)>>

CoachRow(width) == Pad(<<Number(9), Text("ALL"), Text("Neri"), Number(600)>>, width)

\* the goalkeeper after two goals conceded and a yellow card
RowGk == [RowY EXCEPT !.Gs = 2, !.Amm = 1]
\* player 1 with the last cell of his row left empty
RowX2e == [RowX2 EXCEPT !.Ass = NaN]

\* Milan before Inter, Bianchi after the coach: the records come out unsorted
SheetUnsorted ==
    <<TitleRow(13), TeamRow(Text("Milan"), 13), ColumnRow(13), PlayerRow(RowZ),
      BlankRow(13), TeamRow(Text("Inter"), 13), ColumnRow(13), PlayerRow(RowY),
      CoachRow(13), PlayerRow(RowX), FooterRow(13)>>

\* a sheet without Verdi, after the transfer of Rossi
SheetShort ==
    <<TitleRow(13), TeamRow(Text("Inter"), 13), ColumnRow(13), PlayerRow(RowGk),
      CoachRow(13), TeamRow(Text("Milan"), 13), ColumnRow(13), PlayerRow(RowX2e)>>

\* no player rows at all
SheetCoachOnly ==
    <<TitleRow(13), TeamRow(Text("Inter"), 13), ColumnRow(13), CoachRow(13),
      FooterRow(13)>>

\* five columns only; a player above the first team row, a team named by a
\* number, a rating that is a text and an empty Gf cell
SheetNarrow ==
    <<TitleRow(5),
      <<Number(4), Text("C"), Text("Neri"), Number(600), Number(0)>>,
      TeamRow(Number(7), 5), ColumnRow(5),
      <<Number(3), Text("D"), Text("Verdi"), Number(550), Number(0)>>,
      TeamRow(Text("Inter"), 5), ColumnRow(5),
      <<Number(2), Text("P"), Text("Bianchi"), Text("s.v."), NoCell>>,
      CoachRow(5)>>

Workbooks ==
    {[readable |-> TRUE, sheet |-> SheetUnsorted],
     [readable |-> TRUE, sheet |-> SheetShort],
     [readable |-> TRUE, sheet |-> SheetCoachOnly],
     [readable |-> TRUE, sheet |-> SheetNarrow],
     [readable |-> FALSE, sheet |-> SheetUnsorted]}

\* the workbooks of one input directory, by matchday, and the orders of a listing
Batches == UNION {[1..n -> Workbooks] : n \in 1..MaxFiles}

Listings(n) == {o \in [1..n -> 1..n] : \A i, j \in 1..n : o[i] = o[j] => i = j}

(***************************************************************************)
(* The CSV files and the JSON team list handed to the loader               *)
(***************************************************************************)
MaxLoadMatchdays == 2     \* matchday files in the data directory
MaxLoadTeams     == 2     \* entries of the JSON team list

CsvRow(team, cod, role, name, rating, gf, gs) ==
    [Team |-> team, Cod |-> cod, Role |-> role, Name |-> name,
     Rating |-> rating, Gf |-> gf, Gs |-> gs, Rp |-> 0, Rs |-> 0, Rf |-> 0,
     Au |-> 0, Amm |-> 0, Esp |-> 0, Ass |-> 0]

\* matchday 1, the reference file
ReferenceFiles ==
    {\* a plain file; the last row has an empty Rating cell and an empty Gf cell
     <<CsvRow("Inter", 1, "A", "Rossi", 600, 1, 0),
       CsvRow("Inter", 2, "P", "Bianchi", 650, 0, 0),
       CsvRow("Milan", 3, "D", "Verdi", NaN, NaN, 0)>>,
     \* two players named Rossi; Bianchi carries the role code G
     <<CsvRow("Inter", 1, "A", "Rossi", 600, 1, 0),
       CsvRow("Milan", 4, "C", "Rossi", 700, 0, 0),
       CsvRow("Inter", 2, "G", "Bianchi", 650, 0, 0)>>,
     \* Bianchi carries the role code X
     <<CsvRow("Inter", 1, "A", "Rossi", 600, 1, 0),
       CsvRow("Inter", 2, "X", "Bianchi", 650, 0, 0)>>,
     \* code 1 listed twice
     <<CsvRow("Inter", 1, "A", "Rossi", 600, 0, 0),
       CsvRow("Milan", 1, "A", "Rossi", 700, 1, 0),
       CsvRow("Milan", 3, "D", "Verdi", 550, 0, 0)>>}

\* the later matchdays
LaterFiles ==
    {<<CsvRow("Inter", 1, "A", "Rossi", 650, 0, 0),
       CsvRow("Milan", 3, "D", "Verdi", 650, 1, 0)>>,
     <<CsvRow("Inter", 2, "P", "Bianchi", NaN, 0, 2),
       CsvRow("Inter", 1, "A", "Rossi", 0, 1, 0)>>,
     \* a Rating cell holds a text: pandas reads the whole column as text
     <<CsvRow("Inter", 1, "A", "Rossi", NotANumber, 0, 0),
       CsvRow("Milan", 3, "D", "Verdi", NotANumber, 1, 0)>>}

CsvInputs ==
    UNION {{fs \in [1..n -> ReferenceFiles \cup LaterFiles] :
               /\ fs[1] \in ReferenceFiles
               /\ \A k \in 2..n : fs[k] \in LaterFiles} : n \in 1..MaxLoadMatchdays}

TeamConfigs ==
    {[name |-> "A", players |-> <<1, 2>>],
     \* a roster given as names; Neri is in no file
     [name |-> "B",
      goalkeepers |-> <<[name |-> "Bianchi", note |-> "Inter"]>>,
      forwards    |-> <<[name |-> "Rossi", note |-> "Inter"],
                        [name |-> "Neri", note |-> "Roma"]>>],
     \* code 1 is also on the roster of A; code 9 is in no file
     [name |-> "C", players |-> <<3, 1, 9>>]}

ConfigInputs ==
    UNION {{c \in [1..n -> TeamConfigs] : \A i, j \in 1..n : i # j => c[i] # c[j]} :
              n \in 1..MaxLoadTeams}

(***************************************************************************)
(* Values of the variables a specification does not use                    *)
(***************************************************************************)
IdlePlayer == player = NewPlayer(1, "F")
IdleTable  ==
    /\ st = NewSeasonTable(NewTeam("A", <<>>))
    /\ st_call = [op |-> "none"]
IdleSeason ==
    /\ teams = <<>>
    /\ table = <<>>
    /\ current_matchday = 1
    /\ season_completed = FALSE
    /\ last = [op |-> "none"]
IdleStd ==
    /\ files = <<>>
    /\ original = <<>>
    /\ returned = [called |-> FALSE, value |-> <<>>]
IdleLoad == ld = [stage |-> "idle"]

(***************************************************************************)
(* Spec: a Season and the calls made on it.  Every call records in `last`  *)
(* its name, its argument, what it raised and what it returned.            *)
(***************************************************************************)
Season ==
    [teams |-> teams, table |-> table,
     current_matchday |-> current_matchday, season_completed |-> season_completed]

SetSeason(S) ==
    /\ teams' = S.teams
    /\ table' = S.table
    /\ current_matchday' = S.current_matchday
    /\ season_completed' = S.season_completed

\* the matchday arguments tried: the two numbers just outside the range and
\* the matchdays loaded for a player of the season, in any order and any
\* number of times
MatchdayInputs ==
    {FIRST_MATCHDAY - 1, LAST_MATCHDAY + 1}
        \cup UNION {UNION {DOMAIN teams[i].players[k].matchday_stats :
                              k \in DOMAIN teams[i].players} : i \in DOMAIN teams}

Init ==
    /\ \E ts \in TeamLists :
          LET S == NewSeason(ts)
          IN  /\ teams = S.teams
              /\ table = S.table
              /\ current_matchday = S.current_matchday
              /\ season_completed = S.season_completed
    /\ last = [op |-> "init"]
    /\ IdlePlayer /\ IdleTable /\ IdleStd /\ IdleLoad

ProcessMatchday ==
    /\ \E matchday \in MatchdayInputs :
          \E r \in {process_matchday(Season, matchday)} :
              /\ SetSeason(r.season)
              /\ last' = [op |-> "process_matchday", arg |-> matchday,
                          raised |-> r.raised, value |-> r.value]
    /\ UNCHANGED <<playerVars, tableVars, stdVars, loadVars>>

\* process_matchday called with the matchday the pointer is at
ProcessCurrentMatchday ==
    /\ \E r \in {process_matchday(Season, current_matchday)} :
           /\ SetSeason(r.season)
           /\ last' = [op |-> "process_matchday", arg |-> current_matchday,
                       raised |-> r.raised, value |-> r.value]
    /\ UNCHANGED <<playerVars, tableVars, stdVars, loadVars>>

ProcessCompleteSeason ==
    /\ \E r \in {process_complete_season(Season)} :
           /\ SetSeason(r.season)
           /\ last' = [op |-> "process_complete_season", arg |-> 0,
                       raised |-> r.raised, value |-> r.value]
    /\ UNCHANGED <<playerVars, tableVars, stdVars, loadVars>>

GetSeasonTable ==
    /\ last' = [op |-> "get_season_table", arg |-> 0,
                raised |-> "none", value |-> get_season_table(Season)]
    /\ UNCHANGED <<teams, table, current_matchday, season_completed>>
    /\ UNCHANGED <<playerVars, tableVars, stdVars, loadVars>>

GetSeasonSummary ==
    /\ last' = [op |-> "get_season_summary", arg |-> 0,
                raised |-> "none", value |-> get_season_summary(Season)]
    /\ UNCHANGED <<teams, table, current_matchday, season_completed>>
    /\ UNCHANGED <<playerVars, tableVars, stdVars, loadVars>>

\* the team names asked for: the names of the rosters and one that no team has
TeamNameInputs == {"A", "B", "D", "Z"}

GetMatchdayScores ==
    /\ \E matchday \in MatchdayInputs :
          \E r \in {get_matchday_scores(Season, matchday)} :
              /\ SetSeason(r.season)
              /\ last' = [op |-> "get_matchday_scores", arg |-> matchday,
                          raised |-> "none", value |-> r.value]
    /\ UNCHANGED <<playerVars, tableVars, stdVars, loadVars>>

GetTeamProgression ==
    /\ \E team_name \in TeamNameInputs :
          \E r \in {get_team_progression(Season, team_name)} :
              /\ SetSeason(r.season)
              /\ last' = [op |-> "get_team_progression", arg |-> team_name,
                          raised |-> "none", value |-> r.value]
    /\ UNCHANGED <<playerVars, tableVars, stdVars, loadVars>>

Next == ProcessMatchday \/ ProcessCompleteSeason \/ GetSeasonTable \/ GetSeasonSummary

Spec == Init /\ [][Next]_vars

(***************************************************************************)
(* SpecSequence: a Season taken through its matchdays one by one, each     *)
(* call made for the matchday the pointer is at, with                      *)
(* process_complete_season at any point                                    *)
(***************************************************************************)
SequenceNext == ProcessCurrentMatchday \/ ProcessCompleteSeason

SpecSequence == Init /\ [][SequenceNext]_vars

(***************************************************************************)
(* SpecQuery: a Season, the calls that process matchdays and every query   *)
(***************************************************************************)
\* the seasons queried: the striker's team "A" with a second team, which is
\* team "B", the other team named "A", or the team with the empty roster
QueryTeamLists == {ts \in TeamLists : Len(ts) = 2 /\ ts[1].players = <<Striker>>}

QueryInit ==
    /\ \E ts \in QueryTeamLists :
          LET S == NewSeason(ts)
          IN  /\ teams = S.teams
              /\ table = S.table
              /\ current_matchday = S.current_matchday
              /\ season_completed = S.season_completed
    /\ last = [op |-> "init"]
    /\ IdlePlayer /\ IdleTable /\ IdleStd /\ IdleLoad

QueryNext ==
    \/ ProcessMatchday
    \/ ProcessCompleteSeason
    \/ GetSeasonTable
    \/ GetSeasonSummary
    \/ GetMatchdayScores
    \/ GetTeamProgression

SpecQuery == QueryInit /\ [][QueryNext]_vars

(***************************************************************************)
(* SpecFail: a Season with a team whose scoring raises for one matchday    *)
(***************************************************************************)
FailInit ==
    /\ \E ts \in FailTeamLists :
          LET S == NewSeason(ts)
          IN  /\ teams = S.teams
              /\ table = S.table
              /\ current_matchday = S.current_matchday
              /\ season_completed = S.season_completed
    /\ last = [op |-> "init"]
    /\ IdlePlayer /\ IdleTable /\ IdleStd /\ IdleLoad

FailNext ==
    ProcessMatchday \/ ProcessCompleteSeason \/ GetMatchdayScores \/ GetSeasonTable

SpecFail == FailInit /\ [][FailNext]_vars

(***************************************************************************)
(* SpecRank: the ranking of seasons of up to three teams                   *)
(***************************************************************************)
RankInit ==
    /\ \E ts \in RankTeamLists :
          LET S == NewSeason(ts)
          IN  /\ teams = S.teams
              /\ table = S.table
              /\ current_matchday = S.current_matchday
              /\ season_completed = S.season_completed
    /\ last = [op |-> "init"]
    /\ IdlePlayer /\ IdleTable /\ IdleStd /\ IdleLoad

RankNext == ProcessMatchday \/ GetSeasonTable \/ GetSeasonSummary

SpecRank == RankInit /\ [][RankNext]_vars

(***************************************************************************)
(* SpecLoad: setup_complete_teams, call by call: load_teams_from_json,     *)
(* populate_teams_with_players, load_all_matchday_stats                    *)
(***************************************************************************)
LoadInit ==
    /\ \E csv_files \in CsvInputs, teams_config \in ConfigInputs :
          ld = [stage |-> "start", csv_files |-> csv_files,
                teams_config |-> teams_config, teams |-> <<>>, raised |-> "none"]
    /\ IdlePlayer /\ IdleTable /\ IdleSeason /\ IdleStd

LoadTeams ==
    /\ ld.stage = "start"
    /\ ld' = [ld EXCEPT !.stage = "teams",
                        !.teams = load_teams_from_json(ld.teams_config, ld.csv_files[1])]
    /\ UNCHANGED <<playerVars, tableVars, seasonVars, stdVars>>

Populate ==
    /\ ld.stage = "teams"
    /\ LET r == populate_teams_with_players(ld.teams, ld.csv_files[1])
       IN  ld' = [ld EXCEPT !.stage = IF r.raised = "none" THEN "populated" ELSE "failed",
                            !.teams = r.teams,
                            !.raised = r.raised]
    /\ UNCHANGED <<playerVars, tableVars, seasonVars, stdVars>>

LoadStats ==
    /\ ld.stage = "populated"
    /\ \E r \in {load_all_matchday_stats(ld.teams, ld.csv_files)} :
          ld' = [ld EXCEPT !.stage = IF r.raised = "none" THEN "loaded" ELSE "interrupted",
                           !.teams = r.teams,
                           !.raised = r.raised]
    /\ UNCHANGED <<playerVars, tableVars, seasonVars, stdVars>>

LoadNext == LoadTeams \/ Populate \/ LoadStats

SpecLoad == LoadInit /\ [][LoadNext]_vars

(***************************************************************************)
(* SpecTable: one SeasonTable fed by add_matchday_score                    *)
(***************************************************************************)
TableInit == IdleTable /\ IdlePlayer /\ IdleSeason /\ IdleStd /\ IdleLoad

TableAdd ==
    /\ \E matchday \in 1..MaxTableMatchday, score \in ScoreInputs :
          /\ st' = add_matchday_score(st, matchday, score)
          /\ st_call' = [op |-> "add_matchday_score", matchday |-> matchday,
                         score |-> score,
                         recorded |-> matchday \in OKeys(st.matchday_scores),
                         previous |-> IF matchday \in OKeys(st.matchday_scores)
                                      THEN OGet(st.matchday_scores, matchday) ELSE Zero]
    /\ UNCHANGED <<playerVars, seasonVars, stdVars, loadVars>>

TableNext == TableAdd

SpecTable == TableInit /\ [][TableNext]_vars

(***************************************************************************)
(* SpecPlayer: one Player fed by its two methods in any order              *)
(***************************************************************************)
PlayerInit ==
    /\ \E role \in Roles : player = NewPlayer(1, role)
    /\ IdleTable /\ IdleSeason /\ IdleStd /\ IdleLoad

PlayerAddStats ==
    /\ \E matchday \in 1..MaxPlayerMatchday, stats \in StatsInputs :
          player' = add_matchday_stats(player, matchday, stats)
    /\ UNCHANGED <<tableVars, seasonVars, stdVars, loadVars>>

PlayerAddFantavoto ==
    /\ \E matchday \in 1..MaxPlayerMatchday :
          player' = add_matchday_fantavoto(player, matchday)
    /\ UNCHANGED <<tableVars, seasonVars, stdVars, loadVars>>

PlayerNext == PlayerAddStats \/ PlayerAddFantavoto

SpecPlayer == PlayerInit /\ [][PlayerNext]_vars

(***************************************************************************)
(* SpecFormula: the fantavoto of one matchday record, over a wide set of   *)
(* records (ingestion as load_all_matchday_stats does it: stats, then      *)
(* fantavoto)                                                              *)
(***************************************************************************)
FormulaInit == PlayerInit

FormulaAddStats ==
    /\ ~ has_stats(player, 1)
    /\ \E stats \in FormulaInputs : player' = add_matchday_stats(player, 1, stats)
    /\ UNCHANGED <<tableVars, seasonVars, stdVars, loadVars>>

FormulaAddFantavoto ==
    /\ has_stats(player, 1)
    /\ 1 \notin DOMAIN player.matchday_fantavoto
    /\ player' = add_matchday_fantavoto(player, 1)
    /\ UNCHANGED <<tableVars, seasonVars, stdVars, loadVars>>

FormulaNext == FormulaAddStats \/ FormulaAddFantavoto

SpecFormula == FormulaInit /\ [][FormulaNext]_vars

(***************************************************************************)
(* SpecStd: a batch of matchday files and their standardization            *)
(***************************************************************************)
StdInit ==
    /\ \E fs \in FileLists : files = fs /\ original = fs
    /\ returned = [called |-> FALSE, value |-> <<>>]
    /\ IdlePlayer /\ IdleTable /\ IdleSeason /\ IdleLoad

Standardize ==
    /\ LET r == standardize_player_lists(files)
       IN  /\ files' = r.files
           /\ returned' = [called |-> TRUE, value |-> r.returned]
    /\ original' = files
    /\ UNCHANGED <<playerVars, tableVars, seasonVars, loadVars>>

\* excel_to_csv (process_excel_file) writing the file of matchday i
ExcelToCsv ==
    /\ \E workbook \in Workbooks, i \in 1..MaxFiles :
          /\ i <= Len(files) + 1
          /\ LET csv == excel_to_csv(workbook, i \notin DOMAIN files \/ files[i].writable)
             IN  files' = IF csv.written THEN WriteFile(files, i, csv.rows) ELSE files
    /\ original' = files'
    /\ returned' = [called |-> FALSE, value |-> <<>>]
    /\ UNCHANGED <<playerVars, tableVars, seasonVars, loadVars>>

\* excel_to_csv_players_only writing the file of matchday i
ExcelToCsvPlayersOnly ==
    /\ \E workbook \in Workbooks, i \in 1..MaxFiles :
          /\ i <= Len(files) + 1
          /\ LET csv == excel_to_csv_players_only(workbook,
                                                  i \notin DOMAIN files \/ files[i].writable)
             IN  files' = IF csv.written THEN WriteFile(files, i, csv.rows) ELSE files
    /\ original' = files'
    /\ returned' = [called |-> FALSE, value |-> <<>>]
    /\ UNCHANGED <<playerVars, tableVars, seasonVars, loadVars>>

\* batch_process_excel_files (batch_process_directory) on a directory that
\* holds a workbook for each of its first matchdays
BatchProcess ==
    /\ \E batch \in Batches :
          /\ Len(batch) <= Len(files) + 1
          /\ \E order \in Listings(Len(batch)) :
                files' = batch_process_excel_files(files, batch, order)
    /\ original' = files'
    /\ returned' = [called |-> FALSE, value |-> <<>>]
    /\ UNCHANGED <<playerVars, tableVars, seasonVars, loadVars>>

StdNext == Standardize \/ ExcelToCsv \/ ExcelToCsvPlayersOnly \/ BatchProcess

SpecStd == StdInit /\ [][StdNext]_vars

(***************************************************************************)
(* Claims                                                                  *)
(***************************************************************************)
\* C1: after every add_matchday_score call, total_points is the sum of the
\* scores now stored in matchday_scores (the float that sum() gives for them,
\* whose nearest hundredth is the sum of their hundredths), and the matchday of
\* the call holds the score of the call: a repeated matchday overwrites, it is
\* not counted twice.
C1_TotalIsSumOfScores ==
    /\ st.total_points = FSum(OValues(st.matchday_scores))
    /\ st.total_points.h = SumSeq([i \in DOMAIN st.matchday_scores |->
                                      st.matchday_scores[i].v.h])
    /\ st_call.op = "add_matchday_score" =>
          /\ st_call.matchday \in OKeys(st.matchday_scores)
          /\ OGet(st.matchday_scores, st_call.matchday) = st_call.score

\* score 5 then score 7 for the same matchday, nothing else recorded: total 7
C1_Witness ==
    /\ st_call.op = "add_matchday_score"
    /\ st_call.recorded /\ st_call.previous = Float(500) /\ st_call.score = Float(700)
    /\ OKeys(st.matchday_scores) = {st_call.matchday}
    /\ st.total_points = Float(700)

\* C2: whenever the stored rating of a matchday is 0, calculate_fantavoto is
\* 0.0 for every role, whatever the other nine stat fields hold, and so is the
\* fantavoto stored for that matchday.
C2_ZeroRatingGivesZero ==
    \A m \in DOMAIN player.matchday_stats :
        player.matchday_stats[m].rating = 0 =>
            /\ calculate_fantavoto(player, m) = Zero
            /\ m \in DOMAIN player.matchday_fantavoto => player.matchday_fantavoto[m] = Zero

\* a goalkeeper who did not play, with a leaked goal and no goal conceded
C2_Witness ==
    /\ player.role = "G"
    /\ 1 \in DOMAIN player.matchday_stats
    /\ player.matchday_stats[1].rating = 0
    /\ player.matchday_stats[1].gf = 1
    /\ player.matchday_stats[1].gs = 0
    /\ 1 \in DOMAIN player.matchday_fantavoto
    /\ player.matchday_fantavoto[1] = Zero

\* the sum the claim gives, in hundredths of a point
C3_Sum(role, s) ==
    s.rating + 300 * s.gf + 100 * s.ass - 300 * s.rp + 300 * s.rs
    - 50 * s.amm - 100 * s.esp - 200 * s.au
    + (IF role = "G" THEN (IF s.gs = 0 THEN 100 ELSE 0) - 100 * s.gs ELSE 0)

\* the float r is the decimal x (in hundredths) rounded to one decimal: a tenth
\* nearest to x, and the even one when x is a binary fraction half-way between
\* two tenths (x.25, x.75)
C3_IsRounded(r, x) ==
    /\ r = Float(r.h)
    /\ r.h % 10 = 0
    /\ r.h - x <= 5 /\ x - r.h <= 5
    /\ (x % 25 = 0 /\ (r.h - x = 5 \/ x - r.h = 5)) => (r.h \div 10) % 2 = 0

\* C3 as stated: with a rating other than 0, calculate_fantavoto equals
\* rating + 3*goals_for + assists - 3*penalties_missed + 3*penalties_saved
\* - 0.5*yellow_cards - red_cards - 2*own_goals, and for a goalkeeper only,
\* minus goals_against and plus 1 when goals_against is 0.
C3_AsStated ==
    \A m \in DOMAIN player.matchday_stats :
        player.matchday_stats[m].rating # 0 =>
            calculate_fantavoto(player, m)
                = Float(C3_Sum(player.role, player.matchday_stats[m]))

\* C3 (amended): with a rating other than 0, calculate_fantavoto equals that
\* sum rounded to one decimal place (a tenth nearest to it; of the two tenths
\* of a sum that lies half-way, the even one when the sum is a multiple of
\* 0.25), and so does the fantavoto stored by add_matchday_fantavoto;
\* goals_against counts for goalkeepers only.
C3_FormulaRounded ==
    \A m \in DOMAIN player.matchday_stats :
        player.matchday_stats[m].rating # 0 =>
            /\ C3_IsRounded(calculate_fantavoto(player, m),
                            C3_Sum(player.role, player.matchday_stats[m]))
            /\ m \in DOMAIN player.matchday_fantavoto =>
                  C3_IsRounded(player.matchday_fantavoto[m],
                               C3_Sum(player.role, player.matchday_stats[m]))

\* a goalkeeper rated 6 who conceded 2: 4.0
C3_Witness ==
    /\ player.role = "G"
    /\ 1 \in DOMAIN player.matchday_stats
    /\ player.matchday_stats[1] = PlayerStats(
           [Rating |-> 600, Gf |-> 0, Gs |-> 2, Rp |-> 0, Rs |-> 0, Rf |-> 0,
            Au |-> 0, Amm |-> 0, Esp |-> 0, Ass |-> 0])
    /\ 1 \in DOMAIN player.matchday_fantavoto
    /\ player.matchday_fantavoto[1] = Float(400)

C5_TableRanksEveryTeam ==
    LET t == get_season_table(Season)
    IN  /\ Len(t) = Len(teams)
        /\ \A i \in DOMAIN teams : \E j \in DOMAIN t : t[j].team = teams[i].name
        /\ \A j \in DOMAIN t : t[j].position = j
        /\ \A j \in 1..(Len(t) - 1) : ~ FLess(t[j].total_points, t[j + 1].total_points)

\* C6: process_matchday(n) with n outside 1..38 raises the range error and
\* leaves every SeasonTable, the pointer and the completion flag as they were.
C6_OutOfRangeRejected ==
    [][(last'.op = "process_matchday" /\ last'.arg \notin 1..38) =>
          /\ last'.raised = "ValueError"
          /\ UNCHANGED <<teams, table, current_matchday, season_completed>>]_vars

\* process_matchday(39) rejected on a season that has scores recorded
C6_Witness ==
    /\ last.op = "process_matchday" /\ last.arg = 39 /\ last.raised = "ValueError"
    /\ current_matchday = 3
    /\ \A i \in DOMAIN table : table[i].v.matchdays_played = 2

\* C7: a successful process_matchday(n) records, for every team, that team's
\* calculate_total_score(n) as the matchday-n score of the team's own
\* SeasonTable, returns each team its own score, and changes no entry of a
\* matchday other than n.
C7_EachTeamOwnScore ==
    [][(last'.op = "process_matchday" /\ last'.raised = "none") =>
          /\ \A i \in DOMAIN teams :
                /\ \E j \in DOMAIN table' :
                      /\ table'[j].v.team = teams[i]
                      /\ last'.arg \in OKeys(table'[j].v.matchday_scores)
                      /\ OGet(table'[j].v.matchday_scores, last'.arg)
                            = calculate_total_score(teams[i], last'.arg)
                /\ last'.value[teams[i].name] = calculate_total_score(teams[i], last'.arg)
          /\ \A j \in DOMAIN table :
                /\ OKeys(table'[j].v.matchday_scores)
                      = OKeys(table[j].v.matchday_scores) \cup {last'.arg}
                /\ \A m \in OKeys(table[j].v.matchday_scores) :
                      m # last'.arg =>
                          OGet(table'[j].v.matchday_scores, m) = OGet(table[j].v.matchday_scores, m)]_vars

\* C8: when process_complete_season returns, every team's table has all 38
\* matchdays recorded, the completion flag is set, the pointer is 39 (the
\* matchdays were processed in increasing order, from whatever state the
\* season was in), and the value returned is the summary of that final state.
C8_CompleteSeason ==
    last.op = "process_complete_season" =>
        /\ season_completed
        /\ current_matchday = 39
        /\ \A i \in DOMAIN teams :
              /\ OKeys(OGet(table, teams[i].name).matchday_scores) = 1..38
              /\ OGet(table, teams[i].name).matchdays_played = 38
        /\ last.raised = "none"
        /\ last.value.season_completed
        /\ last.value.teams = Len(teams)
        /\ last.value.total_matchdays_processed = 38 * Len(table)
        /\ last.value.final_table = get_season_table(Season)
        /\ last.value.champion = get_season_table(Season)[1].team

\* a complete season of teams A (forward) and B (goalkeeper)
C8_Witness ==
    /\ last.op = "process_complete_season"
    /\ Len(teams) = 2
    /\ last.value.champion = "A"
    /\ last.value.champion_points = Float(1600)
    /\ last.value.final_table[2].team = "B"
    /\ last.value.final_table[2].total_points = Float(1150)

\* C9: once matchdays 1..38 have all been processed, by whatever calls,
\* season_completed is true; and whenever season_completed is true, all 38
\* matchdays are recorded in every team's table.
C9_FlagIffAllProcessed ==
    LET AllRecorded ==
            \A i \in DOMAIN teams :
                OKeys(OGet(table, teams[i].name).matchday_scores) = 1..38
    IN  /\ AllRecorded => season_completed
        /\ season_completed => AllRecorded

\* C10: for every matchday m, matchday_fantavoto has an entry for m if and only
\* if matchday_stats has an entry for m, after any sequence of
\* add_matchday_stats and add_matchday_fantavoto calls.
C10_FantavotoIffStats ==
    \A m \in 1..MaxPlayerMatchday :
        (m \in DOMAIN player.matchday_fantavoto) <=> (m \in DOMAIN player.matchday_stats)

\* C11: after any sequence of add_matchday_stats and add_matchday_fantavoto
\* calls, a stored matchday_fantavoto[m] equals calculate_fantavoto(m) on the
\* stats now stored for m: the cache is never stale.
C11_CacheNeverStale ==
    \A m \in DOMAIN player.matchday_fantavoto :
        player.matchday_fantavoto[m] = calculate_fantavoto(player, m)

\* C12: matchdays_played is the number of distinct matchdays present in
\* matchday_scores; a call for a matchday already recorded does not raise it.
C12_PlayedIsCardinality ==
    st.matchdays_played = Cardinality(OKeys(st.matchday_scores))

\* the same matchday scored three times over two different matchdays played
C12_Witness ==
    /\ st_call.op = "add_matchday_score"
    /\ st_call.recorded
    /\ st_call.previous # st_call.score
    /\ st.matchdays_played = 2
    /\ OKeys(st.matchday_scores) = {1, 3}

\* how many times a record occurs in a record list
CountRow(rows, r) == Cardinality({i \in DOMAIN rows : rows[i] = r})

\* the record the claim describes for a key: the key's components, ten zeros
C13_ZeroRecord(key) ==
    [Team |-> key[1], Cod |-> key[2], Role |-> key[3], Name |-> key[4],
     Rating |-> 0, Gf |-> 0, Gs |-> 0, Rp |-> 0, Rs |-> 0, Rf |-> 0,
     Au |-> 0, Amm |-> 0, Esp |-> 0, Ass |-> 0]

\* C13: standardization adds a record to a matchday only for a universe key
\* that was absent from that matchday, and every record it adds has the key's
\* Team, Cod, Role and Name and all ten numeric fields equal to 0: each file
\* holds its original records, each as many times as before, and, when it
\* could be read and saved, one such record for each absent key, and nothing
\* else.
C13_AddsOnlyZeroRecords ==
    returned.called =>
        LET universe == UNION {KeysOf(original[i].rows) :
                                  i \in {j \in DOMAIN original : original[j].readable}}
        IN  \A i \in DOMAIN original :
                LET absent == IF original[i].readable /\ original[i].writable
                              THEN universe \ KeysOf(original[i].rows) ELSE {}
                    added  == {C13_ZeroRecord(key) : key \in absent}
                IN  /\ Len(files[i].rows) = Len(original[i].rows) + Cardinality(absent)
                    /\ \A r \in Range(files[i].rows) \cup Range(original[i].rows) \cup added :
                          CountRow(files[i].rows, r)
                              = CountRow(original[i].rows, r) + (IF r \in added THEN 1 ELSE 0)

\* matchday 1 has x and y, matchday 2 has x and z: z is added to matchday 1
\* with zeros, y to matchday 2, and x is added to neither
C13_Witness ==
    /\ returned.called
    /\ Len(original) = 2
    /\ original[1] = [readable |-> TRUE, writable |-> TRUE, rows |-> <<RowX, RowY>>]
    /\ original[2] = [readable |-> TRUE, writable |-> TRUE, rows |-> <<RowX, RowZ>>]
    /\ CountRow(files[1].rows, C13_ZeroRecord(player_key(RowZ))) = 1
    /\ CountRow(files[2].rows, C13_ZeroRecord(player_key(RowY))) = 1
    /\ CountRow(files[1].rows, RowX) = 1
    /\ CountRow(files[2].rows, RowX) = 1

\* C14: the current-matchday pointer changes only in a successful
\* process_matchday(n) with n equal to the pointer before the call, and then
\* by exactly +1; process_matchday(n) with another n still records the scores
\* and leaves the pointer as it was; the queries leave it alone and
\* process_complete_season, a run of process_matchday calls, never lowers it.
C14_PointerStepsByOne ==
    [][/\ last'.op = "process_matchday" =>
             /\ current_matchday' =
                    IF last'.raised = "none" /\ last'.arg = current_matchday
                    THEN current_matchday + 1 ELSE current_matchday
             /\ last'.raised = "none" =>
                    \A j \in DOMAIN table' :
                        last'.arg \in OKeys(table'[j].v.matchday_scores)
       /\ last'.op \in {"get_season_table", "get_season_summary"} =>
             current_matchday' = current_matchday
       /\ current_matchday' >= current_matchday]_vars

\* matchday 2 processed first: recorded, the pointer still at matchday 1
C14_Witness ==
    /\ last.op = "process_matchday" /\ last.arg = 2 /\ last.raised = "none"
    /\ current_matchday = 1
    /\ \A j \in DOMAIN table : OKeys(table[j].v.matchday_scores) = {2}

\* C15: get_season_summary reports as champion the team at position 1 of
\* get_season_table, a team whose total points are not lower than any other
\* team's, with that total as champion_points; as highest_single_score the
\* maximum best_score over all teams; and an average score per matchday of 0
\* when no team-matchday score has been recorded.
C15_SummaryOfTable ==
    last.op \in {"get_season_summary", "process_complete_season"} =>
        LET stats == [i \in DOMAIN table |-> get_stats(table[i].v)]
        IN  /\ last.value.champion = get_season_table(Season)[1].team
            /\ last.value.champion_points = get_season_table(Season)[1].total_points
            /\ \E i \in DOMAIN stats :
                  /\ stats[i].team = last.value.champion
                  /\ stats[i].total_points = last.value.champion_points
            /\ \A i \in DOMAIN stats :
                  ~ FLess(last.value.champion_points, stats[i].total_points)
            /\ \E i \in DOMAIN stats : stats[i].best_score = last.value.highest_single_score
            /\ \A i \in DOMAIN stats :
                  ~ FLess(last.value.highest_single_score, stats[i].best_score)
            /\ (\A i \in DOMAIN table : OKeys(table[i].v.matchday_scores) = {}) =>
                  last.value.average_score_per_matchday = Zero

\* C16: in get_season_table two teams with the same total_points appear in
\* the order in which they were given to the Season at construction, whatever
\* their other attributes.
C16_TiesKeepGivenOrder ==
    LET t == get_season_table(Season)
        Shown(team) == \E k \in DOMAIN table : table[k].v.team = team
        Pos(team)   == CHOOSE p \in DOMAIN t : t[p].team = team.name
        Total(team) == get_stats(OGet(table, team.name)).total_points
    IN  \A i, j \in DOMAIN teams :
            (i < j /\ Shown(teams[i]) /\ Shown(teams[j])
                   /\ Total(teams[i]) = Total(teams[j]))
                => Pos(teams[i]) < Pos(teams[j])

\* C17: no Season exists in which two teams share a name, and the Season
\* always holds exactly one SeasonTable per team of its team list.
C17_OneTablePerTeam ==
    /\ \A i, j \in DOMAIN teams : i # j => teams[i].name # teams[j].name
    /\ Len(table) = Len(teams)
    /\ \A i \in DOMAIN teams : \E k \in DOMAIN table : table[k].v.team = teams[i]

\* the code of the first row of the reference file that carries the name
C18_FirstCode(rows, name) ==
    rows[CHOOSE i \in DOMAIN rows :
            /\ rows[i].Name = name
            /\ \A j \in 1..(i - 1) : rows[j].Name # name].Cod

\* C18: a roster given as display names is resolved name by name against the
\* reference matchday, the first record with a matching name giving the code.
C18_FirstNameWins ==
    ld.stage \in {"teams", "populated", "failed", "loaded"} =>
        \A t \in DOMAIN ld.teams_config :
            "players" \notin DOMAIN ld.teams_config[t] =>
                LET rows  == ld.csv_files[1]
                    cfg   == ld.teams_config[t]
                    infos == Get(cfg, "goalkeepers", <<>>) \o Get(cfg, "defenders", <<>>)
                             \o Get(cfg, "midfielders", <<>>) \o Get(cfg, "forwards", <<>>)
                    InFile(info) == \E i \in DOMAIN rows : rows[i].Name = info.name
                    found == SelectSeq(infos, InFile)
                IN  ld.teams[t].player_codes
                        = [k \in 1..Len(found) |-> C18_FirstCode(rows, found[k].name)]

\* C19: a raw role code outside the mapping table {P, D, C, A} is an error for
\* the caller of the roster population: no Player is created from a record
\* with such a code, and the call raises when a roster holds one.
C19_UnknownRoleRejected ==
    ld.stage \in {"populated", "failed", "loaded"} =>
        LET players_data == load_player_data_from_csv(ld.csv_files[1])
            Known(cod)   == players_data[cod].Role \in DOMAIN role_mapping
        IN  /\ \A t \in DOMAIN ld.teams : \A k \in DOMAIN ld.teams[t].players :
                  Known(ld.teams[t].players[k].cod)
            /\ (\E t \in DOMAIN ld.teams : \E k \in DOMAIN ld.teams[t].player_codes :
                    /\ ld.teams[t].player_codes[k] \in DOMAIN players_data
                    /\ ~ Known(ld.teams[t].player_codes[k]))
                  => ld.raised # "none"

\* C20: every numeric stat field, rating included, is ingested as 0 when it
\* is missing from the matchday record, and a missing rating gives the
\* fantavoto 0.0.
C20_MissingFieldsAreZero ==
    ld.stage = "loaded" =>
        \A t \in DOMAIN ld.teams : \A k \in DOMAIN ld.teams[t].players :
            LET p == ld.teams[t].players[k]
            IN  \A m \in DOMAIN p.matchday_stats :
                    /\ \A f \in DOMAIN p.matchday_stats[m] : p.matchday_stats[m][f] # NaN
                    /\ (\E i \in DOMAIN ld.csv_files[m] :
                            /\ ld.csv_files[m][i].Cod = p.cod
                            /\ ld.csv_files[m][i].Rating = NaN
                            /\ \A j \in (i + 1)..Len(ld.csv_files[m]) :
                                  ld.csv_files[m][j].Cod # p.cod)
                          => /\ p.matchday_stats[m].rating = 0
                             /\ p.matchday_fantavoto[m] = Zero

(***************************************************************************)
(* C21: a matchday file that cannot be read, and a file that is read but   *)
(* whose merged records cannot be saved, is left as it was and is still in *)
(* the list returned; every other file is standardized over the players of *)
(* the files that could be read; the list returned holds every input file  *)
(* once, in input order.                                                   *)
(***************************************************************************)
C21_ReadableKeys ==
    UNION {KeysOf(original[j].rows) :
               j \in {k \in DOMAIN original : original[k].readable}}

C21_Sorted(rows) ==
    \A i \in 1..(Len(rows) - 1) : ~ RowBefore(rows[i + 1], rows[i])

C21_PerFileIsolation ==
    returned.called =>
        /\ returned.value = [i \in 1..Len(original) |-> i]
        /\ Len(files) = Len(original)
        /\ \A i \in DOMAIN original :
               IF original[i].readable /\ original[i].writable
               THEN /\ files[i].readable
                    /\ KeysOf(files[i].rows) = C21_ReadableKeys
                    /\ C21_Sorted(files[i].rows)
                    /\ \A r \in Range(original[i].rows) :
                           CountRow(files[i].rows, r)
                               = CountRow(original[i].rows, r)
               ELSE files[i] = original[i]

\* a file that is read but cannot be saved, before a file that can: the first
\* is untouched (still unsorted, without a record of its own added), the
\* second is sorted and gains the player only the first file has
C21_Witness ==
    /\ returned.called
    /\ original = <<[readable |-> TRUE, writable |-> FALSE, rows |-> <<RowZ, RowY, RowX>>],
                    [readable |-> TRUE, writable |-> TRUE, rows |-> <<RowY, RowX>>]>>
    /\ files[1] = original[1]
    /\ files[2].rows = <<RowX, RowY, Row("Milan", 3, "D", "Verdi", 0, 0)>>
    /\ returned.value = <<1, 2>>

(***************************************************************************)
(* C22: get_season_table, get_matchday_scores, get_team_progression and    *)
(* get_season_summary change nothing of the season, whatever the argument  *)
(* (a matchday out of range, a name no team has), and the same call made   *)
(* again straight away returns an equal result.                            *)
(***************************************************************************)
C22_Queries ==
    {"get_season_table", "get_matchday_scores", "get_team_progression",
     "get_season_summary"}

\* the result of the call `op(arg)` on the season S
C22_Result(S, op, arg) ==
    CASE op = "get_season_table"     -> get_season_table(S)
      [] op = "get_season_summary"   -> get_season_summary(S)
      [] op = "get_matchday_scores"  -> get_matchday_scores(S, arg).value
      [] op = "get_team_progression" -> get_team_progression(S, arg).value

C22_QueriesChangeNothing ==
    [][last'.op \in C22_Queries =>
          /\ Season' = Season
          /\ last'.value = C22_Result(Season', last'.op, last'.arg)]_vars

\* a progression asked for a name no team has, on a season with scores
\* recorded: the answer is the empty dict
C22_Witness ==
    /\ last.op = "get_team_progression"
    /\ last.arg = "Z"
    /\ last.value = EmptyDict
    /\ current_matchday = 3
    /\ \A i \in DOMAIN table : OKeys(table[i].v.matchday_scores) = {1, 2}

(***************************************************************************)
(* C23: once the completion flag is set, no later call on the Season       *)
(* (process_matchday with any argument, process_complete_season, a query)  *)
(* changes the flag, the pointer or any team's recorded scores and totals. *)
(***************************************************************************)
C23_CompletedIsTerminal ==
    [][season_completed =>
          /\ season_completed'
          /\ current_matchday' = current_matchday
          /\ table' = table]_vars

\* a completed season on which matchday 1 was processed once more
C23_Witness ==
    /\ season_completed
    /\ current_matchday = LAST_MATCHDAY + 1
    /\ last.op = "process_matchday"
    /\ last.arg = 1
    /\ last.raised = "none"
    /\ \E i \in DOMAIN table : table[i].v.total_points = Float(1600)

(***************************************************************************)
(* C24: in every state of a Season, the state left by a process_matchday   *)
(* call that raised while scoring a team included, all the SeasonTables    *)
(* have the same set of recorded matchdays.                                *)
(***************************************************************************)
C24_NoPartialMatchday ==
    \A i, j \in DOMAIN table :
        OKeys(table[i].v.matchday_scores) = OKeys(table[j].v.matchday_scores)

(***************************************************************************)
(* C25: the current-matchday pointer p is between 1 and 39, and every      *)
(* matchday m with 1 <= m < p is recorded in every team's SeasonTable.     *)
(***************************************************************************)
C25_PointerBehindRecorded ==
    /\ current_matchday \in FIRST_MATCHDAY..(LAST_MATCHDAY + 1)
    /\ \A i \in DOMAIN teams :
           \A m \in FIRST_MATCHDAY..(current_matchday - 1) :
               m \in OKeys(OGet(table, teams[i].name).matchday_scores)

\* matchday 2 processed first, then matchday 1: the pointer is at 2 and both
\* matchdays are recorded
C25_Witness ==
    /\ current_matchday = 2
    /\ last.op = "process_matchday"
    /\ last.arg = 1
    /\ \A i \in DOMAIN teams :
           OKeys(OGet(table, teams[i].name).matchday_scores) = {1, 2}

(***************************************************************************)
(* C26: with the players' stats as they are, the tables depend only on the *)
(* set of matchdays processed: a season that processed its matchdays in    *)
(* any order, any number of times, has the tables and the ranking of the   *)
(* season that processed each of them once in ascending order; processing  *)
(* a matchday twice is processing it once, and two matchdays processed in  *)
(* either order give the same tables.                                      *)
(***************************************************************************)
C26_Days == {1, 2, 3, LAST_MATCHDAY}

\* the season S after each matchday of `days`, in ascending order
RECURSIVE C26_InOrder(_, _)
C26_InOrder(S, days) ==
    IF days = {} THEN S
    ELSE C26_InOrder(process_matchday(S, MinOf(days)).season, days \ {MinOf(days)})

C26_After(S, n) == process_matchday(S, n).season

\* two dicts are equal: the same keys with the same values, in whatever order
C26_SameScores(a, b) ==
    /\ OKeys(a) = OKeys(b)
    /\ \A m \in OKeys(a) : OGet(a, m) = OGet(b, m)

\* the same SeasonTable under every name
C26_SameTables(x, y) ==
    /\ OKeys(x) = OKeys(y)
    /\ \A name \in OKeys(x) :
          /\ C26_SameScores(OGet(x, name).matchday_scores, OGet(y, name).matchday_scores)
          /\ OGet(x, name).total_points = OGet(y, name).total_points
          /\ OGet(x, name).matchdays_played = OGet(y, name).matchdays_played

C26_OnlyTheSetMatters ==
    LET processed == UNION {OKeys(table[i].v.matchday_scores) : i \in DOMAIN table}
        ascending == C26_InOrder(NewSeason(teams), processed)
    IN  /\ C26_SameTables(table, ascending.table)
        /\ get_season_table(Season) = get_season_table(ascending)
        /\ \A n \in C26_Days :
               C26_SameTables(C26_After(C26_After(Season, n), n).table,
                              C26_After(Season, n).table)
        /\ \A n, m \in C26_Days :
               LET nm == C26_After(C26_After(Season, n), m)
                   mn == C26_After(C26_After(Season, m), n)
               IN  /\ C26_SameTables(nm.table, mn.table)
                   /\ get_season_table(nm) = get_season_table(mn)

(***************************************************************************)
(* C27: if every original matchday file holds at most one record per       *)
(* player code then, for every matchday m and every code c with a record   *)
(* in the original file of m, the stats that load_player_data_from_csv     *)
(* gives c from the standardized file of m are the stats of that original  *)
(* record, also when c is listed under another Team, Role or Name in       *)
(* another matchday.                                                       *)
(***************************************************************************)
C27_StatFields == {"Rating", "Gf", "Gs", "Rp", "Rs", "Rf", "Au", "Amm", "Esp", "Ass"}

C27_OneRecordPerCode(rows) ==
    \A i, j \in DOMAIN rows : rows[i].Cod = rows[j].Cod => i = j

C27_RealRecordIngested ==
    (/\ returned.called
     /\ \A m \in DOMAIN original : C27_OneRecordPerCode(original[m].rows))
    => \A m \in DOMAIN original :
           original[m].readable =>
               LET players_data == load_player_data_from_csv(files[m].rows)
               IN  \A i \in DOMAIN original[m].rows :
                       LET row == original[m].rows[i]
                       IN  /\ row.Cod \in DOMAIN players_data
                           /\ \A f \in C27_StatFields :
                                  players_data[row.Cod][f] = RowData(row)[f]

(***************************************************************************)
(* C28: after load_all_matchday_stats every Player object of every roster  *)
(* has a stats entry and a fantavoto entry for every loaded matchday whose *)
(* file holds a record of its code, also when two rosters list the code.   *)
(***************************************************************************)
C28_EveryPlayerObjectLoaded ==
    ld.stage = "loaded" =>
        \A t \in DOMAIN ld.teams :
            \A k \in DOMAIN ld.teams[t].players :
                LET p == ld.teams[t].players[k]
                IN  \A m \in DOMAIN ld.csv_files :
                        (\E i \in DOMAIN ld.csv_files[m] : ld.csv_files[m][i].Cod = p.cod)
                            => /\ m \in DOMAIN p.matchday_stats
                               /\ m \in DOMAIN p.matchday_fantavoto

====
